---- MODULE Spec2Model ----
(***************************************************************************)
(* Model of zoumo/kube-codegen's CRD generator:                            *)
(*   - the value-to-source compiler  (package crd, GenerateValue & co.)    *)
(*   - the group artifact emitter    (pkg/generator/crd/generator.go)      *)
(*   - the generator selection       (EnabledGenerators)                   *)
(*                                                                         *)
(* Strings are sequences of code points, so that Capitalize, HasSuffix,    *)
(* ReplaceAll and sort.Strings are computed on characters as the Go code   *)
(* computes them.                                                          *)
(***************************************************************************)
EXTENDS Integers, Sequences, FiniteSets, TLC

VARIABLES
    input,      \* the value handed to GenerateValue (SpecSelect: the --generators list)
    output,     \* the *jen.Statement GenerateValue returned (Unset before the call;
                \* SpecSelect: the generators EnabledGenerators returned)
    pc,         \* position of Generator.Generate
    run,        \* 1 for the first run of the generator, 2 for a second run on the same input
    roots,      \* the input of a run: packages, kube kinds, flags, header file readable
    crds,       \* parser.CustomResourceDefinitions: GroupKind -> CRD object
    groups,     \* the local slice `groups` of Generate
    gi,         \* index of the next entry of `groups` the emission loop handles
    files,      \* output root of this run: path -> rendered file
    prevFiles,  \* the files the first run left (compared with the second run's)
    emitted,    \* history: the file operations (Open, Render, Close) of this run, in order
    last,       \* the artifact rendered last (kind "none" before the first)
    cg,         \* the CodeGenerator: its default lists, its codeGeneratorVersion, and
                \* the --generators list handed to Run
    cgpc,       \* position of CodeGenerator.Run ("idle" when it is not running)
    sorted,     \* the local slice `sorted` of doGenerate
    ran,        \* history: the doGen calls of this Run and how each ended, in order
    outputBase, \* the directory c.outputBase: Absent, or what lies in it
    workspace,  \* what Run has copied into c.workspace
    result      \* what Run returned (Unset while it runs)

cgVars == <<cg, cgpc, sorted, ran, outputBase, workspace, result>>
vars == <<input, output, pc, run, roots, crds, groups, gi, files, prevFiles, emitted, last,
          cg, cgpc, sorted, ran, outputBase, workspace, result>>

(***************************************************************************)
(* Bounds of the model.                                                    *)
(***************************************************************************)
MaxLen == 2        \* longest slice enumerated as an input value
MaxEntries == 2    \* most entries of a map enumerated as an input value
MaxLit == 1        \* integers 0..MaxLit are enumerated as scalar payloads

(***************************************************************************)
(* Strings.                                                                *)
(***************************************************************************)
\* lexicographic byte order, as Go's < on strings (sort.Strings)
RECURSIVE StrLess(_, _)
StrLess(a, b) ==
    IF b = <<>> THEN FALSE
    ELSE IF a = <<>> THEN TRUE
    ELSE IF Head(a) # Head(b) THEN Head(a) < Head(b)
    ELSE StrLess(Tail(a), Tail(b))

HasSuffix(s, suffix) ==
    /\ Len(s) >= Len(suffix)
    /\ SubSeq(s, Len(s) - Len(suffix) + 1, Len(s)) = suffix

\* strings.ReplaceAll(s, old, "") for a one-character old
RECURSIVE StripChar(_, _)
StripChar(s, c) ==
    IF s = <<>> THEN <<>>
    ELSE IF Head(s) = c THEN StripChar(Tail(s), c)
    ELSE <<Head(s)>> \o StripChar(Tail(s), c)


Capitalize(str) ==
    IF Len(str) < 1 THEN <<>>
    ELSE IF str[1] >= 97 /\ str[1] <= 122
         THEN <<str[1] - 32>> \o Tail(str)
         ELSE str

(***************************************************************************)
(* reflect.Type: type descriptors.                                         *)
(***************************************************************************)
LiteralKinds == {"bool", "int", "int8", "string"}

LitT(kind, pkg, name) == [kind |-> kind, pkg |-> pkg, name |-> name]
PtrT(e) == [kind |-> "ptr", elem |-> e]
SliceT(e) == [kind |-> "slice", elem |-> e]
ArrayT(n, e) == [kind |-> "array", len |-> n, elem |-> e]
MapT(k, e) == [kind |-> "map", key |-> k, elem |-> e]
ChanT(e) == [kind |-> "chan", elem |-> e]
\* func()
FuncT == [kind |-> "func"]
\* json: the type (or its pointer) implements json.Marshaler and json.Unmarshaler
StructT(pkg, name, fields, json) ==
    [kind |-> "struct", pkg |-> pkg, name |-> name, fields |-> fields, json |-> json]
Field(name, type, exported) == [name |-> name, type |-> type, exported |-> exported]

\* t.Kind().String()
KindString(kind) ==
    CASE kind = "bool" -> <<98, 111, 111, 108>>
      [] kind = "int" -> <<105, 110, 116>>
      [] kind = "int8" -> <<105, 110, 116, 56>>
      [] kind = "string" -> <<115, 116, 114, 105, 110, 103>>

\* golib reflection helpers, as generator code uses them
IsLiteralType(t) == t.kind \in LiteralKinds
IsCustomType(t) == t.kind \in LiteralKinds /\ t.pkg # ""
IsAnonymousStruct(t) == t.kind = "struct" /\ t.name = ""
IsUnexportedField(field) == ~field.exported
HasUnexportedField(t) == \E i \in 1..Len(t.fields) : IsUnexportedField(t.fields[i])

(***************************************************************************)
(* reflect.Value: values.  A scalar's payload is kept as its text: an      *)
(* integer as its decimal digits, a string as its characters, a bool as    *)
(* "true"/"false".                                                         *)
(*   scalar   [t, val]                                                     *)
(*   pointer  [t, nil] or [t, nil, elem]      chan  [t, nil]               *)
(*   slice    [t, nil, elems]                 array [t, elems]             *)
(*   map      [t, nil, entries]  (a set of [key, val], keys distinct)      *)
(*   struct   [t, fields]        (one value per field, private included)   *)
(***************************************************************************)
Digit(n) == <<48 + n>>
StrFalse == <<102, 97, 108, 115, 101>>
StrTrue == <<116, 114, 117, 101>>
StringPayloads == {<<>>, <<97>>, <<98>>}

LitPayloads(kind) ==
    CASE kind = "bool" -> {StrFalse, StrTrue}
      [] kind \in {"int", "int8"} -> {Digit(n) : n \in 0..MaxLit}
      [] kind = "string" -> StringPayloads

\* the zero Value: what Elem() of a nil pointer returns
InvalidValue == [t |-> [kind |-> "invalid"]]

SeqsUpTo(S, n) == UNION {[1..k -> S] : k \in 0..n}

RECURSIVE Values(_), FieldProduct(_)
Values(T) ==
    CASE T.kind \in LiteralKinds ->
            {[t |-> T, val |-> x] : x \in LitPayloads(T.kind)}
      [] T.kind = "ptr" ->
            {[t |-> T, nil |-> TRUE]}
                \cup {[t |-> T, nil |-> FALSE, elem |-> e] : e \in Values(T.elem)}
      [] T.kind = "slice" ->
            {[t |-> T, nil |-> TRUE, elems |-> <<>>]}
                \cup {[t |-> T, nil |-> FALSE, elems |-> s] :
                        s \in SeqsUpTo(Values(T.elem), MaxLen)}
      [] T.kind = "array" ->
            {[t |-> T, elems |-> s] : s \in [1..T.len -> Values(T.elem)]}
      [] T.kind = "map" ->
            {[t |-> T, nil |-> TRUE, entries |-> {}]}
                \cup {[t |-> T, nil |-> FALSE, entries |-> m] :
                        m \in {x \in SUBSET {[key |-> k, val |-> e] :
                                        k \in Values(T.key), e \in Values(T.elem)} :
                                 /\ Cardinality(x) <= MaxEntries
                                 /\ \A a, b \in x : a.key = b.key => a = b}}
      [] T.kind = "struct" ->
            {[t |-> T, fields |-> f] : f \in FieldProduct(T.fields)}
      [] T.kind \in {"chan", "func"} ->
            {[t |-> T, nil |-> TRUE], [t |-> T, nil |-> FALSE]}
FieldProduct(fields) ==
    IF fields = <<>> THEN {<<>>}
    ELSE {<<h>> \o r : h \in Values(Head(fields).type), r \in FieldProduct(Tail(fields))}

\* reflect.Value.IsZero
RECURSIVE IsZero(_)
IsZero(v) ==
    CASE v.t.kind = "bool" -> v.val = StrFalse
      [] v.t.kind \in {"int", "int8"} -> v.val = Digit(0)
      [] v.t.kind = "string" -> Len(v.val) = 0
      [] v.t.kind \in {"ptr", "slice", "map", "chan", "func"} -> v.nil
      [] v.t.kind = "array" -> \A i \in 1..Len(v.elems) : IsZero(v.elems[i])
      [] v.t.kind = "struct" -> \A i \in 1..Len(v.fields) : IsZero(v.fields[i])

(***************************************************************************)
(* jen statements: the expressions the compiler builds.                    *)
(*   Null                      a nil *jen.Statement                        *)
(*   Panic                     the call did not return (reflect panicked)  *)
(*   [e: "lit", kind, val]     jen.Lit(value)                              *)
(*   [e: "conv", pkg, name, arg]      pkg.Name(arg)                        *)
(*   [e: "ptrof", helper, arg]        pointer.Helper(arg)                  *)
(*   [e: "ptrconv", pkg, name, arg]   conversion of arg to pointer-to-Name *)
(*   [e: "addr", arg]                 &arg                                 *)
(*   [e: "values", type, items]       type{items...}                       *)
(*   [e: "dict", type, entries]       type{key: val, ...}  (jen.Dict)      *)
(*   [e: "iife", ptr, pkg, name, json]  (func() T {...})()                 *)
(*   [e: "id", name]                  an identifier (a field name)         *)
(* and type expressions [op, ...] with op one of: star, [], [n], map,      *)
(* chan, qual, id, struct, &, empty, nil.                                  *)
(***************************************************************************)
Null == [e |-> "null"]
Panic == [e |-> "panic"]
Unset == [e |-> "unset"]

\* no directory at the path c.outputBase
Absent == [exists |-> FALSE, entries |-> {}]
\* a directory holding the given entries
Dir(entries) == [exists |-> TRUE, entries |-> entries]
NoCodeGenerator == [codeGeneratorVersion |-> <<>>]
\* CodeGenerator.Run is not running
CodeGeneratorIdle ==
    /\ cg = NoCodeGenerator /\ cgpc = "idle" /\ sorted = <<>> /\ ran = <<>>
    /\ outputBase = Absent /\ workspace = {} /\ result = Unset
EmptyStatement == [op |-> "empty"]
NilType == [op |-> "nil"]

RECURSIVE HasPanic(_)
HasPanic(s) ==
    CASE s.e = "panic" -> TRUE
      [] s.e \in {"conv", "ptrof", "ptrconv", "addr"} -> HasPanic(s.arg)
      [] s.e = "values" -> \E i \in 1..Len(s.items) : HasPanic(s.items[i])
      [] s.e = "dict" -> \E kv \in s.entries : HasPanic(kv.key) \/ HasPanic(kv.val)
      [] OTHER -> FALSE

\* a panic anywhere below unwinds the whole call
Unwind(s) == IF HasPanic(s) THEN Panic ELSE s

RECURSIVE generateType(_)
generateType(t) ==
    CASE t.kind = "ptr" -> [op |-> "star", arg |-> generateType(t.elem)]
      [] t.kind = "slice" -> [op |-> "[]", arg |-> generateType(t.elem)]
      [] t.kind = "array" -> [op |-> "[n]", len |-> t.len, arg |-> generateType(t.elem)]
      [] t.kind = "map" ->
            [op |-> "map", key |-> generateType(t.key), arg |-> generateType(t.elem)]
      [] t.kind = "struct" -> [op |-> "qual", pkg |-> t.pkg, name |-> t.name]
      [] t.kind = "chan" -> [op |-> "chan", arg |-> generateType(t.elem)]
      [] t.kind = "func" -> NilType
      [] OTHER ->
            IF IsCustomType(t) THEN [op |-> "qual", pkg |-> t.pkg, name |-> t.name]
            ELSE [op |-> "id", name |-> KindString(t.kind)]

generateBuiltinLiteralValue(v) == [e |-> "lit", kind |-> v.t.kind, val |-> v.val]

generateLiteralValueNoConv(v) ==
    IF v = InvalidValue THEN Panic
    ELSE IF ~IsLiteralType(v.t) THEN Null
    ELSE generateBuiltinLiteralValue(v)

generateLiteralValue(v) ==
    IF v = InvalidValue THEN Panic
    ELSE IF ~IsLiteralType(v.t) THEN Null
    ELSE LET ts == generateBuiltinLiteralValue(v)
         IN  IF IsCustomType(v.t)
             THEN [e |-> "conv", pkg |-> v.t.pkg, name |-> v.t.name, arg |-> ts]
             ELSE ts

generatePtrLiteralValue(v) ==
    IF v = InvalidValue THEN Panic
    ELSE IF ~IsLiteralType(v.t) THEN Null
    ELSE LET value == generateBuiltinLiteralValue(v)
             p == [e |-> "ptrof", helper |-> Capitalize(KindString(v.t.kind)),
                   arg |-> value]
         IN  IF IsCustomType(v.t)
             THEN [e |-> "ptrconv", pkg |-> v.t.pkg, name |-> v.t.name, arg |-> p]
             ELSE p

\* the records whose MarshalJSON returns an error: a Strict whose private
\* field is not zero (as time.Time does for a year outside 0..9999)
MarshalFails(v) ==
    /\ v.t.kind = "struct"
    /\ v.t.name = "Strict"
    /\ \E i \in 1..Len(v.fields) : ~v.t.fields[i].exported /\ ~IsZero(v.fields[i])
\* json.Marshal(v.Interface()) through the type's own contract: the text
\* carries every field of the record, private ones included; on an error the
\* bytes are nil
Marshal(v) == [json |-> IF MarshalFails(v) THEN <<>> ELSE v.fields, err |-> MarshalFails(v)]

generateStructWithUnexportedField(v, ptrResult) ==
    IF v.t.kind # "struct" THEN Null
    ELSE IF v.t.json
         THEN [e |-> "iife", ptr |-> ptrResult, pkg |-> v.t.pkg, name |-> v.t.name,
               json |-> [json |-> Marshal(v).json]]
         ELSE Null

\* reflect.Value.Elem of a pointer
Elem(v) == IF v.nil THEN InvalidValue ELSE v.elem

IsNullCodeNever(s) == FALSE

\* a nil *jen.Statement, which jen leaves out when it renders a Dict or a group
IsNullCode(s) == s = Null

\* generateStructValue's test of one field (the loop body): an entry is put
\* into the Dict for field i
IncludedFieldKeepZero(v, i) ==
    ~(IsUnexportedField(v.t.fields[i]) \/ IsAnonymousStruct(v.t.fields[i].type))

IncludedFieldKeepAnonymous(v, i) ==
    /\ ~IsUnexportedField(v.t.fields[i])
    /\ ~IsZero(v.fields[i])

IncludedField(v, i) ==
    /\ ~(IsUnexportedField(v.t.fields[i]) \/ IsAnonymousStruct(v.t.fields[i].type))
    /\ ~IsZero(v.fields[i])

\* the type prefix generateStructValue puts before the braces
\* as StructPrefix, but a pointer result is not prefixed with &
StructPrefixWithoutAddress(t, ptrResult, omitType) ==
    IF omitType THEN EmptyStatement
    ELSE IF IsAnonymousStruct(t)
    THEN [op |-> "struct",
          fields |-> [i \in 1..Len(t.fields) |->
                        [name |-> t.fields[i].name,
                         type |-> generateType(t.fields[i].type)]]]
    ELSE [op |-> "qual", pkg |-> t.pkg, name |-> t.name]

StructPrefix(t, ptrResult, omitType) ==
    LET named == IF IsAnonymousStruct(t)
                 THEN [op |-> "struct",
                       fields |-> [i \in 1..Len(t.fields) |->
                                     [name |-> t.fields[i].name,
                                      type |-> generateType(t.fields[i].type)]]]
                 ELSE [op |-> "qual", pkg |-> t.pkg, name |-> t.name]
        ts == IF ptrResult THEN [op |-> "&", arg |-> named] ELSE named
    IN  IF omitType THEN EmptyStatement ELSE ts

\* the guard of the opaque-record fallback
UseFallbackNever(t) == FALSE
UseFallback(t) == HasUnexportedField(t)

RECURSIVE generateValue(_, _), generatePtrValue(_, _), generateStructValue(_, _, _)

\* as generatePtrValue, but the pointee that is neither scalar nor Record is
\* rendered with the caller's omitType
generatePtrValuePassingOmitType(v, omitType) ==
    IF v.t.kind # "ptr" THEN Null
    ELSE IF IsLiteralType(v.t.elem) THEN generatePtrLiteralValue(Elem(v))
    ELSE IF v.t.elem.kind = "struct" THEN generateStructValue(Elem(v), TRUE, omitType)
    ELSE [e |-> "addr", arg |-> generateValue(Elem(v), omitType)]

generateStructValue(v, ptrResult, omitType) ==
    IF v = InvalidValue THEN Panic
    ELSE IF v.t.kind # "struct" THEN Null
    ELSE LET j == IF UseFallback(v.t)
                  THEN generateStructWithUnexportedField(v, ptrResult)
                  ELSE Null
         IN  IF j # Null THEN j
             ELSE [e |-> "dict",
                   type |-> StructPrefix(v.t, ptrResult, omitType),
                   entries |-> {[key |-> [e |-> "id", name |-> v.t.fields[i].name],
                                 val |-> generateValue(v.fields[i], FALSE)] :
                                i \in {x \in 1..Len(v.fields) : IncludedField(v, x)}}]

generatePtrValue(v, omitType) ==
    IF v.t.kind # "ptr" THEN Null
    ELSE IF IsLiteralType(v.t.elem) THEN generatePtrLiteralValue(Elem(v))
    ELSE IF v.t.elem.kind = "struct" THEN generateStructValue(Elem(v), TRUE, omitType)
    ELSE LET discarded == IF omitType THEN generateValue(Elem(v), TRUE) ELSE Null
         IN  IF HasPanic(discarded) THEN Panic
             ELSE [e |-> "addr", arg |-> generateValue(Elem(v), FALSE)]

generateValue(v, omitType) ==
    IF v = InvalidValue THEN Panic
    ELSE IF IsLiteralType(v.t) THEN generateLiteralValue(v)
    ELSE LET ts == IF omitType THEN EmptyStatement ELSE generateType(v.t)
         IN  CASE v.t.kind = "ptr" -> generatePtrValue(v, omitType)
               [] v.t.kind \in {"slice", "array"} ->
                    [e |-> "values", type |-> ts,
                     items |-> [i \in 1..Len(v.elems) |-> generateValue(v.elems[i], TRUE)]]
               [] v.t.kind = "map" ->
                    [e |-> "dict", type |-> ts,
                     entries |-> {[key |-> generateValue(kv.key, FALSE),
                                   val |-> generateValue(kv.val, TRUE)] : kv \in v.entries}]
               [] v.t.kind = "struct" -> generateStructValue(v, FALSE, omitType)
               [] OTHER -> Null

GenerateValue(i) == Unwind(generateValue(i, FALSE))

(***************************************************************************)
(* The types and values the compiler is run on.                            *)
(***************************************************************************)
ApiPkg == "example.com/api"
TBool == LitT("bool", "", "")
TInt == LitT("int", "", "")
TInt8 == LitT("int8", "", "")
TStr == LitT("string", "", "")
TMyInt == LitT("int", ApiPkg, "MyInt")
TMyStr == LitT("string", ApiPkg, "MyStr")
\* type Inner struct { A int }
TInner == StructT(ApiPkg, "Inner", <<Field("A", TInt, TRUE)>>, FALSE)
\* struct { A int }
TAnon == StructT("", "", <<Field("A", TInt, TRUE)>>, FALSE)
\* type Holder struct { N int; X struct { A int } }
THolder == StructT(ApiPkg, "Holder",
                   <<Field("N", TInt, TRUE), Field("X", TAnon, TRUE)>>, FALSE)
\* type Quantity struct { Format MyStr; i int }, with MarshalJSON and UnmarshalJSON
TQuantity == StructT(ApiPkg, "Quantity",
                     <<Field("Format", TMyStr, TRUE), Field("i", TInt, FALSE)>>, TRUE)
\* type Locked struct { A int; mu int }, without a JSON contract
TLocked == StructT(ApiPkg, "Locked",
                   <<Field("A", TInt, TRUE), Field("mu", TInt, FALSE)>>, FALSE)
\* type Hook struct { N int; F func() }
THook == StructT(ApiPkg, "Hook",
                 <<Field("N", TInt, TRUE), Field("F", FuncT, TRUE)>>, FALSE)
\* type Strict struct { A int; i int }, with MarshalJSON and UnmarshalJSON;
\* MarshalJSON returns an error unless i is 0
TStrict == StructT(ApiPkg, "Strict",
                   <<Field("A", TInt, TRUE), Field("i", TInt, FALSE)>>, TRUE)
\* type Rec struct { N int8; S []bool; P *MyInt; Q Quantity }
TRec == StructT(ApiPkg, "Rec",
                <<Field("N", TInt8, TRUE), Field("S", SliceT(TBool), TRUE),
                  Field("P", PtrT(TMyInt), TRUE), Field("Q", TQuantity, TRUE)>>, FALSE)
\* type Bag struct { Ptrs []*int }
TBag == StructT(ApiPkg, "Bag", <<Field("Ptrs", SliceT(PtrT(TInt)), TRUE)>>, FALSE)
\* type Index struct { M map[MyStr]*int }
TIndex == StructT(ApiPkg, "Index", <<Field("M", MapT(TMyStr, PtrT(TInt)), TRUE)>>, FALSE)
\* type Watch struct { N int; C chan int }
TWatch == StructT(ApiPkg, "Watch",
                  <<Field("N", TInt, TRUE), Field("C", ChanT(TInt), TRUE)>>, FALSE)

NamedTypes == {TMyInt, TMyStr, TInner, THolder, TQuantity, TLocked, TRec, TWatch, TStrict, THook,
               TBag, TIndex}

InputTypes ==
    {TBool, TInt, TInt8, TStr, TMyInt, TMyStr,
     PtrT(TInt), PtrT(TMyInt), PtrT(TMyStr), PtrT(PtrT(TInt)), PtrT(SliceT(TBool)),
     SliceT(TInt), SliceT(PtrT(TInt)), ArrayT(2, TMyInt), ArrayT(1, PtrT(SliceT(TBool))),
     MapT(TStr, TInt), MapT(TMyStr, PtrT(TInner)),
     TInner, PtrT(TInner), SliceT(TInner), SliceT(PtrT(TInner)),
     TAnon, THolder, PtrT(THolder),
     TQuantity, PtrT(TQuantity), SliceT(TQuantity),
     TLocked, PtrT(TLocked), SliceT(TLocked),
     TRec, TWatch, PtrT(TWatch), ChanT(TInt), TStrict, PtrT(TStrict),
     FuncT, THook, PtrT(TBag), PtrT(TIndex)}

Inputs == UNION {Values(T) : T \in InputTypes}

(***************************************************************************)
(* The value compiler run on its own: one call of GenerateValue.           *)
(***************************************************************************)
NoRoots == [pkgs |-> {}, kinds |-> {}, metav1 |-> FALSE, genInstall |-> FALSE,
            genCRD |-> FALSE, headerOK |-> TRUE]

GeneratorIdle ==
    /\ pc = "idle" /\ run = 1 /\ roots = NoRoots /\ crds = <<>> /\ groups = <<>>
    /\ gi = 1 /\ files = {} /\ prevFiles = {} /\ emitted = <<>> /\ last = [kind |-> "none"]
    /\ CodeGeneratorIdle

InitValue ==
    /\ input \in Inputs
    /\ output = Unset
    /\ GeneratorIdle

Compile ==
    /\ pc = "idle"
    /\ output = Unset
    /\ output' = GenerateValue(input)
    /\ UNCHANGED <<input, pc, run, roots, crds, groups, gi, files, prevFiles, emitted, last>>
    /\ UNCHANGED cgVars

NextValue == Compile

SpecValue == InitValue /\ [][NextValue]_vars

(***************************************************************************)
(* What an emitted expression denotes in the host language (Go), used to   *)
(* state round-trip properties.  Eval(s, X) is the value of expression s   *)
(* in a position whose element type is X (NoType outside a composite       *)
(* literal); BadValue when s does not compile.                             *)
(***************************************************************************)
NoType == [kind |-> "none"]
BadType == [kind |-> "bad"]
BadValue == [t |-> BadType]
IsBad(x) == x.t = BadType

TypeByName(pkg, name) ==
    IF \E T \in NamedTypes : T.pkg = pkg /\ T.name = name
    THEN CHOOSE T \in NamedTypes : T.pkg = pkg /\ T.name = name
    ELSE BadType

KindOfString(str) ==
    IF \E k \in LiteralKinds : KindString(k) = str
    THEN LitT(CHOOSE k \in LiteralKinds : KindString(k) = str, "", "")
    ELSE BadType

RECURSIVE ResolveType(_)
ResolveType(ts) ==
    CASE ts.op = "star" -> PtrT(ResolveType(ts.arg))
      [] ts.op = "[]" -> SliceT(ResolveType(ts.arg))
      [] ts.op = "[n]" -> ArrayT(ts.len, ResolveType(ts.arg))
      [] ts.op = "map" -> MapT(ResolveType(ts.key), ResolveType(ts.arg))
      [] ts.op = "chan" -> ChanT(ResolveType(ts.arg))
      [] ts.op = "qual" -> TypeByName(ts.pkg, ts.name)
      [] ts.op = "id" -> KindOfString(ts.name)
      [] ts.op = "struct" ->
            StructT("", "", [i \in 1..Len(ts.fields) |->
                               Field(ts.fields[i].name, ResolveType(ts.fields[i].type), TRUE)],
                    FALSE)
      [] OTHER -> BadType

\* the zero value of a type (what default construction supplies)
RECURSIVE Zero(_)
Zero(T) ==
    CASE T.kind = "bool" -> [t |-> T, val |-> StrFalse]
      [] T.kind \in {"int", "int8"} -> [t |-> T, val |-> Digit(0)]
      [] T.kind = "string" -> [t |-> T, val |-> <<>>]
      [] T.kind \in {"ptr", "chan", "func"} -> [t |-> T, nil |-> TRUE]
      [] T.kind = "slice" -> [t |-> T, nil |-> TRUE, elems |-> <<>>]
      [] T.kind = "map" -> [t |-> T, nil |-> TRUE, entries |-> {}]
      [] T.kind = "array" -> [t |-> T, elems |-> [i \in 1..T.len |-> Zero(T.elem)]]
      [] T.kind = "struct" ->
            [t |-> T, fields |-> [i \in 1..Len(T.fields) |-> Zero(T.fields[i].type)]]

PointerTo(v) == [t |-> PtrT(v.t), nil |-> FALSE, elem |-> v]

\* the items jen renders: nil statements are left out
RECURSIVE Rendered(_)
Rendered(items) ==
    IF items = <<>> THEN <<>>
    ELSE IF IsNullCode(Head(items)) THEN Rendered(Tail(items))
    ELSE <<Head(items)>> \o Rendered(Tail(items))

RenderedEntries(entries) == {kv \in entries : ~IsNullCode(kv.key) /\ ~IsNullCode(kv.val)}

RECURSIVE Eval(_, _)
Eval(s, X) ==
    CASE s.e = "lit" -> [t |-> LitT(s.kind, "", ""), val |-> s.val]
      [] s.e = "conv" ->
            LET T == TypeByName(s.pkg, s.name)
                a == Eval(s.arg, NoType)
            IN  IF T # BadType /\ T.kind \in LiteralKinds /\ a.t = LitT(T.kind, "", "")
                THEN [t |-> T, val |-> a.val]
                ELSE BadValue
      [] s.e = "ptrof" ->
            LET a == Eval(s.arg, NoType)
            IN  IF /\ a.t.kind \in LiteralKinds
                   /\ a.t = LitT(a.t.kind, "", "")
                   /\ s.helper = Capitalize(KindString(a.t.kind))
                THEN PointerTo(a)
                ELSE BadValue
      [] s.e = "ptrconv" ->
            LET T == TypeByName(s.pkg, s.name)
                a == Eval(s.arg, NoType)
            IN  IF /\ T # BadType /\ T.kind \in LiteralKinds
                   /\ a.t = PtrT(LitT(T.kind, "", ""))
                THEN PointerTo([t |-> T, val |-> a.elem.val])
                ELSE BadValue
      [] s.e = "addr" ->
            \* only a composite literal with its type may have its address taken
            IF s.arg.e \in {"values", "dict"} /\ s.arg.type.op \notin {"empty", "&"}
            THEN LET a == Eval(s.arg, NoType)
                 IN  IF IsBad(a) THEN BadValue ELSE PointerTo(a)
            ELSE BadValue
      [] s.e = "values" ->
            LET elided == s.type.op = "empty"
                asPtr == elided /\ X.kind = "ptr"
                T == IF asPtr THEN X.elem ELSE IF elided THEN X ELSE ResolveType(s.type)
                items == Rendered(s.items)
                vals == [i \in 1..Len(items) |->
                            IF T.kind \in {"slice", "array"}
                            THEN Eval(items[i], T.elem) ELSE BadValue]
                ok == /\ T.kind \in {"slice", "array"}
                      /\ \A i \in 1..Len(items) : vals[i].t = T.elem
                      /\ T.kind = "array" => Len(items) <= T.len
                r == IF T.kind = "slice"
                     THEN [t |-> T, nil |-> FALSE, elems |-> vals]
                     ELSE [t |-> T, elems |-> [i \in 1..T.len |->
                                IF i <= Len(items) THEN vals[i] ELSE Zero(T.elem)]]
            IN  IF ~ok THEN BadValue ELSE IF asPtr THEN PointerTo(r) ELSE r
      [] s.e = "dict" ->
            LET elided == s.type.op = "empty"
                asPtr == (elided /\ X.kind = "ptr") \/ s.type.op = "&"
                T == IF elided THEN (IF X.kind = "ptr" THEN X.elem ELSE X)
                     ELSE IF s.type.op = "&" THEN ResolveType(s.type.arg)
                     ELSE ResolveType(s.type)
                ents == RenderedEntries(s.entries)
                r == IF T.kind = "map"
                     THEN LET m == {[key |-> Eval(kv.key, T.key),
                                     val |-> Eval(kv.val, T.elem)] : kv \in ents}
                          IN  IF /\ \A kv \in m : kv.key.t = T.key /\ kv.val.t = T.elem
                                 /\ \A a, b \in ents : a.key = b.key => a = b
                              THEN [t |-> T, nil |-> FALSE, entries |-> m]
                              ELSE BadValue
                     ELSE IF T.kind = "struct"
                     THEN LET names == {kv.key.name : kv \in ents}
                              ValOf(n) == Eval((CHOOSE kv \in ents : kv.key.name = n).val,
                                               NoType)
                              fs == [i \in 1..Len(T.fields) |->
                                        IF T.fields[i].name \in names
                                        THEN ValOf(T.fields[i].name)
                                        ELSE Zero(T.fields[i].type)]
                          IN  IF /\ \A kv \in ents : kv.key.e = "id"
                                 /\ \A n \in names :
                                        \E i \in 1..Len(T.fields) :
                                            T.fields[i].name = n /\ T.fields[i].exported
                                 /\ \A i \in 1..Len(T.fields) : fs[i].t = T.fields[i].type
                              THEN [t |-> T, fields |-> fs]
                              ELSE BadValue
                     ELSE BadValue
            IN  IF IsBad(r) THEN BadValue ELSE IF asPtr THEN PointerTo(r) ELSE r
      [] s.e = "iife" ->
            \* var obj T; json.Unmarshal([]byte(jsonStr), &obj); return obj
            LET T == TypeByName(s.pkg, s.name)
                \* Unmarshal of the empty text returns an error and leaves obj zero
                obj == IF s.json.json = <<>> THEN Zero(T)
                       ELSE [t |-> T, fields |-> s.json.json]
            IN  IF T = BadType THEN BadValue
                ELSE IF s.ptr THEN PointerTo(obj) ELSE obj
      [] OTHER -> BadValue

\* v with the private state of every record that has a JSON contract blanked:
\* two values equal up to state rebuilt through the fallback have the same Public
RECURSIVE Public(_)
Public(v) ==
    CASE v.t.kind = "ptr" ->
            IF v.nil THEN v ELSE [v EXCEPT !.elem = Public(v.elem)]
      [] v.t.kind \in {"slice", "array"} ->
            [v EXCEPT !.elems = [i \in 1..Len(v.elems) |-> Public(v.elems[i])]]
      [] v.t.kind = "map" ->
            [v EXCEPT !.entries = {[key |-> Public(kv.key), val |-> Public(kv.val)] :
                                    kv \in v.entries}]
      [] v.t.kind = "struct" ->
            [v EXCEPT !.fields = [i \in 1..Len(v.fields) |->
                IF v.t.json /\ ~v.t.fields[i].exported
                THEN Zero(v.t.fields[i].type)
                ELSE Public(v.fields[i])]]
      [] OTHER -> v

\* the kinds the compiler supports: no channel anywhere in the type
RECURSIVE Supported(_)
Supported(T) ==
    CASE T.kind \in LiteralKinds -> TRUE
      [] T.kind \in {"ptr", "slice", "array"} -> Supported(T.elem)
      [] T.kind = "map" -> Supported(T.key) /\ Supported(T.elem)
      [] T.kind = "struct" -> \A i \in 1..Len(T.fields) : Supported(T.fields[i].type)
      [] OTHER -> FALSE

\* C1: round-trip equality.  For every value of a supported kind, the
\* expression GenerateValue returns evaluates to a value deep-equal to the
\* input, up to private state rebuilt through the JSON fallback.
C1_RoundTrip ==
    (output # Unset /\ Supported(input.t)) =>
        /\ output # Panic
        /\ Public(Eval(output, NoType)) = Public(input)

(***************************************************************************)
(* Records met in a render: the record values of the input paired with the *)
(* expression rendered for each (the top-level record, the pointee of a    *)
(* top-level pointer, the elements of a sequence, the values of a mapping).*)
(***************************************************************************)
IsRecord(v) == v.t.kind = "struct"
IsRecordPtr(v) == v.t.kind = "ptr" /\ v.t.elem.kind = "struct" /\ ~v.nil
AsRecord(v) == IF IsRecordPtr(v) THEN v.elem ELSE v

SubRecords ==
    IF output \in {Unset, Panic, Null} THEN {}
    ELSE IF IsRecord(input) \/ IsRecordPtr(input)
    THEN {[v |-> AsRecord(input), s |-> output, pos |-> "top"]}
    ELSE IF input.t.kind = "slice"
    THEN {[v |-> AsRecord(input.elems[i]), s |-> output.items[i], pos |-> "element"] :
            i \in {x \in 1..Len(input.elems) :
                     IsRecord(input.elems[x]) \/ IsRecordPtr(input.elems[x])}}
    ELSE IF input.t.kind = "map"
    THEN {[v |-> AsRecord(kv.val),
           s |-> (CHOOSE o \in output.entries : Eval(o.key, NoType) = kv.key).val,
           pos |-> "element"] :
            kv \in {x \in input.entries : IsRecord(x.val) \/ IsRecordPtr(x.val)}}
    ELSE {}

\* the names of the fields that have an entry in the emitted composite literal
EntryNames(s) == {kv.key.name : kv \in RenderedEntries(s.entries)}

Visible(v, i) == v.t.fields[i].exported
AllVisibleZero(v) == \A i \in 1..Len(v.fields) : Visible(v, i) => IsZero(v.fields[i])
Unsupported(T) == T.kind \in {"chan", "func"}
HasContract(T) == T.json

\* C2 as stated: in field-by-field rendering a field has an entry in the
\* emitted literal iff it is visible, not of anonymous record type, and
\* not zero.
C2_EntryIff_Original ==
    \A p \in SubRecords :
        p.s.e = "dict" =>
            \A i \in 1..Len(p.v.fields) :
                (p.v.t.fields[i].name \in EntryNames(p.s)) <=>
                    /\ Visible(p.v, i)
                    /\ ~IsAnonymousStruct(p.v.t.fields[i].type)
                    /\ ~IsZero(p.v.fields[i])

\* C2 amended: ... iff it is visible, not of anonymous record type, not
\* zero, and not of an unsupported kind (channel or function).
C2_EntryIff ==
    \A p \in SubRecords :
        p.s.e = "dict" =>
            \A i \in 1..Len(p.v.fields) :
                (p.v.t.fields[i].name \in EntryNames(p.s)) <=>
                    /\ Visible(p.v, i)
                    /\ ~IsAnonymousStruct(p.v.t.fields[i].type)
                    /\ ~IsZero(p.v.fields[i])
                    /\ ~Unsupported(p.v.t.fields[i].type)

\* a record rendered field by field with an entry, an elided zero field, an
\* anonymous-record field left out and (elsewhere) a channel field left out
C2_Witness ==
    \E p \in SubRecords :
        /\ p.s.e = "dict"
        /\ EntryNames(p.s) # {}
        /\ \E i \in 1..Len(p.v.fields) :
            /\ p.v.t.fields[i].name \notin EntryNames(p.s)
            /\ ~IsZero(p.v.fields[i])
            /\ Unsupported(p.v.t.fields[i].type)

\* C3 as stated: every record whose visible fields are all zero renders as
\* a composite literal with no field entries, private fields or not.
C3_ZeroElision_Original ==
    \A p \in SubRecords :
        AllVisibleZero(p.v) => (p.s.e = "dict" /\ EntryNames(p.s) = {})

\* C3 amended: every record that is rendered field by field (no private
\* field, or no two-way JSON contract) and whose visible fields are all
\* zero renders as a composite literal with no field entries.
C3_ZeroElision ==
    \A p \in SubRecords :
        (AllVisibleZero(p.v) /\ ~(HasUnexportedField(p.v.t) /\ HasContract(p.v.t))) =>
            (p.s.e = "dict" /\ EntryNames(p.s) = {})

\* an all-zero record in an element position rendered as an empty literal
C3_Witness ==
    \E p \in SubRecords :
        /\ p.pos = "element"
        /\ AllVisibleZero(p.v)
        /\ p.s.e = "dict" /\ p.s.entries = {}

\* C4 as stated: a record with a private field is never a direct composite
\* literal, always an immediately invoked function.
C4_Fallback_Original ==
    \A p \in SubRecords : HasUnexportedField(p.v.t) => p.s.e = "iife"

\* C4 amended: a record with a private field whose type (or its pointer)
\* implements both json.Marshaler and json.Unmarshaler is never a direct
\* composite literal, always an immediately invoked function.
C4_Fallback ==
    \A p \in SubRecords :
        (HasUnexportedField(p.v.t) /\ HasContract(p.v.t)) => p.s.e = "iife"

\* a record with non-zero private state rendered as an invoked function
C4_Witness ==
    \E p \in SubRecords :
        /\ HasUnexportedField(p.v.t) /\ HasContract(p.v.t)
        /\ ~AllVisibleZero(p.v)
        /\ \E i \in 1..Len(p.v.fields) : ~Visible(p.v, i) /\ ~IsZero(p.v.fields[i])
        /\ p.s.e = "iife"

\* C5: a scalar of a custom named type T renders as T(literal); a non-nil
\* pointer to one as the pointer-of helper call on the literal, cast to *T;
\* a builtin scalar, or a pointer to one, carries no conversion.
LiteralOf(v) == [e |-> "lit", kind |-> v.t.kind, val |-> v.val]
HelperCall(v) == [e |-> "ptrof", helper |-> Capitalize(KindString(v.t.kind)),
                  arg |-> LiteralOf(v)]
C5_CustomWrapping ==
    output # Unset =>
        /\ (IsLiteralType(input.t) /\ input.t.pkg # "") =>
                output = [e |-> "conv", pkg |-> input.t.pkg, name |-> input.t.name,
                          arg |-> LiteralOf(input)]
        /\ (IsLiteralType(input.t) /\ input.t.pkg = "") => output = LiteralOf(input)
        /\ (input.t.kind = "ptr" /\ IsLiteralType(input.t.elem) /\ ~input.nil) =>
                IF input.t.elem.pkg # ""
                THEN output = [e |-> "ptrconv", pkg |-> input.t.elem.pkg,
                               name |-> input.t.elem.name, arg |-> HelperCall(input.elem)]
                ELSE output = HelperCall(input.elem)

\* a pointer to a custom-typed scalar was rendered
C5_Witness ==
    /\ input.t.kind = "ptr" /\ ~input.nil
    /\ IsLiteralType(input.t.elem) /\ input.t.elem.pkg # ""
    /\ output # Unset /\ output.e = "ptrconv"

(***************************************************************************)
(* The group artifact emitter: Generator.Generate and the codeWriter.      *)
(***************************************************************************)
MaxKinds == 2      \* most kube kinds (GroupKinds) of one input

\* "api-approved.kubernetes.io"
KubeAPIApprovedAnnotation ==
    <<97, 112, 105, 45, 97, 112, 112, 114, 111, 118, 101, 100, 46, 107, 117, 98, 101, 114, 110, 101, 116, 101, 115, 46, 105, 111>>
\* "https://github.com/kubernetes/enhancements/pull/1111"
ApprovalURL ==
    <<104, 116, 116, 112, 115, 58, 47, 47, 103, 105, 116, 104, 117, 98, 46, 99, 111, 109, 47,
      107, 117, 98, 101, 114, 110, 101, 116, 101, 115, 47, 101, 110, 104, 97, 110, 99, 101, 109, 101, 110, 116, 115, 47, 112, 117, 108, 108, 47, 49, 49, 49, 49>>
\* ".k8s.io" and ".kubernetes.io"
SuffixK8s == <<46, 107, 56, 115, 46, 105, 111>>
SuffixKubernetes == <<46, 107, 117, 98, 101, 114, 110, 101, 116, 101, 115, 46, 105, 111>>

\* the groups of the packages under the roots
\* "a.k8s.io", "k8s.io", "b.io", "c.kubernetes.io"
GroupA == <<97, 46, 107, 56, 115, 46, 105, 111>>
GroupBare == <<107, 56, 115, 46, 105, 111>>
GroupB == <<98, 46, 105, 111>>
GroupC == <<99, 46, 107, 117, 98, 101, 114, 110, 101, 116, 101, 115, 46, 105, 111>>

\* loader.Package with its GroupVersion (an entry of parser.GroupVersions);
\* a package path is its sequence of segments
Pkg(path, group) == [path |-> path, gv |-> [group |-> group, version |-> path[Len(path)]]]
\* x/apps/v1, x/apps/v2 (GroupA); y/apps/v1 (GroupB); x/b.c/v1 (GroupBare);
\* z/kube/v1 (GroupC)
PkgXAppsV1 == Pkg(<<<<120>>, <<97, 112, 112, 115>>, <<118, 49>>>>, GroupA)
PkgXAppsV2 == Pkg(<<<<120>>, <<97, 112, 112, 115>>, <<118, 50>>>>, GroupA)
PkgYAppsV1 == Pkg(<<<<121>>, <<97, 112, 112, 115>>, <<118, 49>>>>, GroupB)
PkgXBcV1 == Pkg(<<<<120>>, <<98, 46, 99>>, <<118, 49>>>>, GroupBare)
PkgZKubeV1 == Pkg(<<<<122>>, <<107, 117, 98, 101>>, <<118, 49>>>>, GroupC)
\* k8s.io/apimachinery/pkg/apis/meta/v1, whose groupName marker is meta.k8s.io:
\* the package crd.FindMetav1 returns
MetaV1Path ==
    <<<<107, 56, 115, 46, 105, 111>>,
      <<97, 112, 105, 109, 97, 99, 104, 105, 110, 101, 114, 121>>,
      <<112, 107, 103>>,
      <<97, 112, 105, 115>>,
      <<109, 101, 116, 97>>,
      <<118, 49>>>>
MetaV1Pkg == Pkg(MetaV1Path, <<109, 101, 116, 97, 46, 107, 56, 115, 46, 105, 111>>)
\* the sets of loaded packages explored: none; one group in one package; one
\* group in two versions; two groups whose packages share the directory name
\* "apps"; a protected and an unprotected group in directories of their own
PkgLayouts ==
    {{}, {PkgXAppsV1}, {PkgXAppsV1, PkgXAppsV2}, {PkgXAppsV1, PkgYAppsV1},
     {PkgYAppsV1, PkgZKubeV1}, {PkgXBcV1, PkgZKubeV1}}

\* "Foo", "foo", "bar"
KindFoo == <<70, 111, 111>>
KindLowerFoo == <<102, 111, 111>>
KindBar == <<98, 97, 114>>
KindNames == {KindFoo, KindLowerFoo, KindBar}

\* the apiextensions/v1 and meta/v1 types of a parsed CRD, cut down to the
\* fields Generate reads or writes
ExtPkg == "k8s.io/apiextensions-apiserver/pkg/apis/apiextensions/v1"
MetaPkg == "k8s.io/apimachinery/pkg/apis/meta/v1"
TObjectMeta == StructT(MetaPkg, "ObjectMeta",
                       <<Field("Name", TStr, TRUE),
                         Field("Annotations", MapT(TStr, TStr), TRUE)>>, FALSE)
TNames == StructT(ExtPkg, "CustomResourceDefinitionNames",
                  <<Field("Kind", TStr, TRUE)>>, FALSE)
TCRDSpec == StructT(ExtPkg, "CustomResourceDefinitionSpec",
                    <<Field("Group", TStr, TRUE), Field("Names", TNames, TRUE)>>, FALSE)
TCRD == StructT(ExtPkg, "CustomResourceDefinition",
                <<Field("ObjectMeta", TObjectMeta, TRUE), Field("Spec", TCRDSpec, TRUE)>>,
                FALSE)

Str(x) == [t |-> TStr, val |-> x]

\* the CRD parser.NeedCRDFor builds for a GroupKind: named, no annotations
ParsedCRD(gk) ==
    [t |-> TCRD,
     fields |-> <<[t |-> TObjectMeta,
                   fields |-> <<Str(gk.kind \o <<46>> \o gk.group),
                                Zero(MapT(TStr, TStr))>>],
                  [t |-> TCRDSpec,
                   fields |-> <<Str(gk.group),
                                [t |-> TNames, fields |-> <<Str(gk.kind)>>]>>]>>]

\* crd.Spec.Group and crd.Annotations
SpecGroup(crd) == crd.fields[2].fields[1].val
Annotations(crd) == crd.fields[1].fields[2]
WithAnnotations(crd, m) == [crd EXCEPT !.fields[1].fields[2] = m]

ApprovalAnnotations ==
    [t |-> MapT(TStr, TStr), nil |-> FALSE,
     entries |-> {[key |-> Str(KubeAPIApprovedAnnotation), val |-> Str(ApprovalURL)]}]

ProtectedNever(group) == FALSE
Protected(group) == HasSuffix(group, SuffixK8s) \/ HasSuffix(group, SuffixKubernetes)

\* the enumerations of a set in some order (Go's map iteration order)
Perms(S) == {f \in [1..Cardinality(S) -> S] : \A i, j \in 1..Cardinality(S) :
                                                  f[i] = f[j] => i = j}

\* path.Base(path.Dir(p)) of a package path
BaseDir(path) == IF Len(path) >= 2 THEN path[Len(path) - 1] ELSE <<46>>
\* path.Base(p)
Base(path) == path[Len(path)]

\* strings.Split(s, ".")[0]
RECURSIVE FirstPart(_)
FirstPart(str) ==
    IF str = <<>> \/ Head(str) = 46 THEN <<>> ELSE <<Head(str)>> \o FirstPart(Tail(str))

\* the (dirName, goPackageName) the emission loop may pick for a group: the
\* first package of the group met in map order, or the first part of the group
DirChoices(pkgs, group) ==
    LET found == {p \in pkgs : p.gv.group = group}
        FromPkg(p) == [dirName |-> BaseDir(p.path),
                       goPackageName |-> StripChar(BaseDir(p.path), 46)]
        fallback == [dirName |-> FirstPart(group), goPackageName |-> FirstPart(group)]
    IN  IF found = {} THEN {fallback}
        ELSE {IF FromPkg(p).goPackageName = <<>> THEN fallback ELSE FromPkg(p) : p \in found}

\* output paths below the output root: path.Join(dir, sub, file)
Path(dir, sub, file) == [dir |-> dir, sub |-> sub, file |-> file]
CRDPath(dirName) == Path(dirName, "", "zz.generated.crd.go")
InstallPath(dirName) == Path(dirName, "install", "zz.generated.install.go")
SchemePath == Path(<<>>, "install", "zz.generated.scheme.go")

\* cw.ctx.Open(nil, filename) then Render: the file at that path is replaced
Write(fs, path, content) ==
    {f \in fs : f.path # path} \cup {[path |-> path, content |-> content]}

\* setFileDefault: the three header comments
Header == <<"// +build !ignore_autogenerated", "headerText",
            "// Code generated by crd-gen. DO NOT EDIT.">>

\* "New" + Capitalize(kind) + "CRD"
ConstructorName(kind) == <<78, 101, 119>> \o Capitalize(kind) \o <<67, 82, 68>>

\* the GroupKinds GenerateGroup's loop keeps for a group
GroupKindsOfAnyGroup(group) == DOMAIN crds
GroupKindsOf(group) == {gk \in DOMAIN crds : gk.group = group}

\* the file GenerateGroup renders, its loop having met the group's
\* GroupKinds in the given order
GroupFile(goPackageName, order) ==
    [package |-> goPackageName,
     header |-> Header,
     funcs |-> [i \in 1..Len(order) |->
                  [name |-> ConstructorName(order[i].kind),
                   params |-> <<>>,
                   body |-> GenerateValue(PointerTo(crds[order[i]]))]],
     aggregator |-> [name |-> "NewCustomResourceDefinitions",
                     calls |-> [i \in 1..Len(order) |-> ConstructorName(order[i].kind)]]]

\* path as one string, segments joined by "/"
RECURSIVE PathString(_)
PathString(path) ==
    IF Len(path) = 0 THEN <<>>
    ELSE IF Len(path) = 1 THEN path[1]
    ELSE path[1] \o <<47>> \o PathString(Tail(path))

\* sort.Strings over the paths of a set of packages
RECURSIVE SortPaths(_)
SortPaths(S) ==
    IF S = {} THEN <<>>
    ELSE LET m == CHOOSE a \in S : \A b \in S : ~StrLess(PathString(b), PathString(a))
         IN  <<m>> \o SortPaths(S \ {m})

\* the import alias of a registered package
Alias(path) == StripChar(BaseDir(path) \o Base(path), 46)

\* parser.GroupVersions once the CRDs were requested: the packages under the
\* roots that carry a groupName marker, and meta/v1, which the schema of every
\* kube kind refers to
GroupVersions(pkgs) == pkgs \cup {MetaV1Pkg}
\* the packages GenerateGroupInstall registers for a group
InstallPackages(pkgs, group) == {p \in GroupVersions(pkgs) : p.gv.group = group}
\* the packages GenerateScheme registers: all but metav1Pkg
SchemePackagesKeepMeta(pkgs) == GroupVersions(pkgs)
SchemePackages(pkgs) == GroupVersions(pkgs) \ {MetaV1Pkg}
\* the body of Install: one utilruntime.Must(<pkg>.AddToScheme(scheme)) per
\* package, in sort.Strings order, and the import aliases
InstallFile(paths) ==
    [package |-> "install",
     header |-> Header,
     aliases |-> {[path |-> q, alias |-> Alias(q)] : q \in paths},
     calls |-> SortPaths(paths)]

\* what one of the three Generate* functions rendered, for which group, to
\* which path; visited: the GroupKinds GenerateGroup's loop met, in order
Artifact(kind, group, path, content, visited) ==
    [kind |-> kind, group |-> group, path |-> path, content |-> content,
     visited |-> visited]
\* how writing one file ends: Open and Render return nil; Open returns an
\* error; Open returns a handle and Render returns an error
Outcomes == {"ok", "openError", "renderError"}
\* what os.Create leaves at the path when Render fails: the file exists, cut
\* to nothing or to a part of the text
Truncated == [package |-> "", header |-> <<>>]
\* the file operations of one Generate* function, in the order of its
\* statements: Open, then (the deferred Close being registered) Render, then
\* Close as the function returns
FileOpsLeakOnError(a, outcome) ==
    LET e(op) == [op |-> op, kind |-> a.kind, group |-> a.group, path |-> a.path]
    IN  CASE outcome = "openError" -> <<e("openError")>>
          [] outcome = "renderError" -> <<e("open"), e("renderError")>>
          [] OTHER -> <<e("open"), e("render"), e("close")>>
FileOps(a, outcome) ==
    LET e(op) == [op |-> op, kind |-> a.kind, group |-> a.group, path |-> a.path]
    IN  CASE outcome = "openError" -> <<e("openError")>>
          [] outcome = "renderError" -> <<e("open"), e("renderError"), e("close")>>
          [] OTHER -> <<e("open"), e("render"), e("close")>>
\* the output directory after one Generate* function
FilesAfter(fs, a, outcome) ==
    CASE outcome = "openError" -> fs
      [] outcome = "renderError" -> Write(fs, a.path, Truncated)
      [] OTHER -> Write(fs, a.path, a.content)

\* the kinds FindKubeKinds returns are types of the packages under the roots
KindSets(pkgs) ==
    {ks \in SUBSET {[group |-> p.gv.group, kind |-> k] : p \in pkgs, k \in KindNames} :
        Cardinality(ks) <= MaxKinds}

RootsSet ==
    UNION {{[pkgs |-> ps, kinds |-> ks, metav1 |-> m, genInstall |-> a, genCRD |-> b,
             headerOK |-> h] :
                ks \in KindSets(ps), m \in BOOLEAN, a \in BOOLEAN, b \in BOOLEAN,
                h \in BOOLEAN} :
            ps \in PkgLayouts}

Init ==
    /\ input = Zero(TInt)
    /\ output = Unset
    /\ pc = "start"
    /\ run = 1
    /\ roots \in RootsSet
    /\ crds = <<>>
    /\ groups = <<>>
    /\ gi = 1
    /\ files = {}
    /\ prevFiles = {}
    /\ emitted = <<>>
    /\ last = [kind |-> "none"]
    /\ CodeGeneratorIdle

\* Generate, lines 78-84: the header file is named and cannot be read
HeaderError ==
    /\ pc = "start"
    /\ ~roots.headerOK
    /\ pc' = "failed"
    /\ UNCHANGED <<input, output, run, roots, crds, groups, gi, files, prevFiles, emitted,
                   last>>
    /\ UNCHANGED cgVars

\* as ReturnEmpty, but the global scheme file is written on the way out
ReturnEmptyWithScheme ==
    /\ pc = "start"
    /\ roots.headerOK
    /\ ~roots.metav1 \/ roots.kinds = {}
    /\ pc' = "done"
    /\ files' = IF roots.genInstall
                THEN files \cup {[path |-> [dir |-> <<>>, sub |-> "install",
                                            file |-> "zz.generated.scheme.go"],
                                  content |-> <<>>]}
                ELSE files
    /\ UNCHANGED <<input, output, run, roots, crds, groups, gi, prevFiles, emitted, last>>
    /\ UNCHANGED cgVars

\* Generate, lines 99-110: nothing to do
ReturnEmpty ==
    /\ pc = "start"
    /\ roots.headerOK
    /\ ~roots.metav1 \/ roots.kinds = {}
    /\ pc' = "done"
    /\ UNCHANGED <<input, output, run, roots, crds, groups, gi, files, prevFiles, emitted,
                   last>>
    /\ UNCHANGED cgVars

\* Generate, lines 112-117: the loop over kubeKinds
CollectGroups ==
    /\ pc = "start"
    /\ roots.headerOK
    /\ roots.metav1 /\ roots.kinds # {}
    /\ \E order \in Perms(roots.kinds) :
            groups' = [i \in 1..Len(order) |-> order[i].group]
    /\ crds' = [gk \in roots.kinds |-> ParsedCRD(gk)]
    /\ pc' = "annotate"
    /\ UNCHANGED <<input, output, run, roots, gi, files, prevFiles, emitted, last>>
    /\ UNCHANGED cgVars

\* the annotation loop run late: nothing is annotated before the emission
\* loop starts, the Definitions are annotated after the first group was emitted
AnnotateAfterEmission ==
    \/ /\ pc = "annotate"
       /\ pc' = "emit"
       /\ gi' = 1
       /\ UNCHANGED <<input, output, run, roots, crds, groups, files, prevFiles, emitted, last>>
       /\ UNCHANGED cgVars
    \/ /\ pc = "emit"
       /\ gi > 1
       /\ crds' = [gk \in DOMAIN crds |->
                     IF Protected(SpecGroup(crds[gk]))
                     THEN WithAnnotations(crds[gk], ApprovalAnnotations)
                     ELSE crds[gk]]
       /\ crds' # crds
       /\ UNCHANGED <<input, output, pc, run, roots, groups, gi, files, prevFiles, emitted, last>>
       /\ UNCHANGED cgVars

\* Generate, lines 119-130: the loop over parser.CustomResourceDefinitions
Annotate ==
    /\ pc = "annotate"
    /\ crds' = [gk \in DOMAIN crds |->
                  IF Protected(SpecGroup(crds[gk]))
                  THEN WithAnnotations(crds[gk], ApprovalAnnotations)
                  ELSE crds[gk]]
    /\ pc' = "emit"
    /\ gi' = 1
    /\ UNCHANGED <<input, output, run, roots, groups, files, prevFiles, emitted, last>>
    /\ UNCHANGED cgVars

\* as EmitGroup, but an error of GenerateGroupInstall is dropped and the loop
\* goes on
EmitGroupIgnoringError ==
    /\ pc = "emit"
    /\ gi <= Len(groups)
    /\ \E c \in DirChoices(GroupVersions(roots.pkgs), groups[gi]),
          order \in Perms(GroupKindsOf(groups[gi])),
          oi \in Outcomes, oc \in Outcomes :
            LET group == groups[gi]
                inst == Artifact("install", group, InstallPath(c.dirName),
                          InstallFile({p.path : p \in InstallPackages(roots.pkgs, group)}),
                          <<>>)
                crd == Artifact("crd", group, CRDPath(c.dirName),
                          GroupFile(c.goPackageName, order), order)
                doInstall == roots.genInstall
                doCRD == roots.genCRD
                afterInstall == IF doInstall THEN FilesAfter(files, inst, oi) ELSE files
            IN  /\ ~doInstall => oi = "ok"
                /\ ~doCRD => oc = "ok"
                /\ files' = IF doCRD THEN FilesAfter(afterInstall, crd, oc) ELSE afterInstall
                /\ emitted' = emitted \o (IF doInstall THEN FileOps(inst, oi) ELSE <<>>)
                                      \o (IF doCRD THEN FileOps(crd, oc) ELSE <<>>)
                /\ last' = IF doCRD /\ oc = "ok" THEN crd
                           ELSE IF doInstall /\ oi = "ok" THEN inst ELSE last
                /\ pc' = IF oc = "ok" THEN "emit" ELSE "failed"
    /\ gi' = gi + 1
    /\ UNCHANGED <<input, output, run, roots, crds, groups, prevFiles>>
    /\ UNCHANGED cgVars

\* Generate, lines 137-167: one turn of the loop over groups.  oi and oc are
\* the outcomes of writing the group's registration file and its CRD file.
EmitGroup ==
    /\ pc = "emit"
    /\ gi <= Len(groups)
    /\ \E c \in DirChoices(GroupVersions(roots.pkgs), groups[gi]),
          order \in Perms(GroupKindsOf(groups[gi])),
          oi \in Outcomes, oc \in Outcomes :
            LET group == groups[gi]
                inst == Artifact("install", group, InstallPath(c.dirName),
                          InstallFile({p.path : p \in InstallPackages(roots.pkgs, group)}),
                          <<>>)
                crd == Artifact("crd", group, CRDPath(c.dirName),
                          GroupFile(c.goPackageName, order), order)
                doInstall == roots.genInstall
                doCRD == roots.genCRD /\ oi = "ok"
                afterInstall == IF doInstall THEN FilesAfter(files, inst, oi) ELSE files
            IN  /\ ~doInstall => oi = "ok"
                /\ ~doCRD => oc = "ok"
                /\ files' = IF doCRD THEN FilesAfter(afterInstall, crd, oc) ELSE afterInstall
                /\ emitted' = emitted \o (IF doInstall THEN FileOps(inst, oi) ELSE <<>>)
                                      \o (IF doCRD THEN FileOps(crd, oc) ELSE <<>>)
                /\ last' = IF doCRD /\ oc = "ok" THEN crd
                           ELSE IF doInstall /\ oi = "ok" THEN inst ELSE last
                /\ pc' = IF oi = "ok" /\ oc = "ok" THEN "emit" ELSE "failed"
    /\ gi' = gi + 1
    /\ UNCHANGED <<input, output, run, roots, crds, groups, prevFiles>>
    /\ UNCHANGED cgVars

\* Generate, lines 169-175: the global scheme file
GenerateScheme ==
    /\ pc = "emit"
    /\ gi > Len(groups)
    /\ roots.genInstall
    /\ \E o \in Outcomes :
        LET a == Artifact("scheme", <<>>, SchemePath,
                         InstallFile({p.path : p \in SchemePackages(roots.pkgs)}), <<>>)
        IN  /\ files' = FilesAfter(files, a, o)
            /\ emitted' = emitted \o FileOps(a, o)
            /\ last' = IF o = "ok" THEN a ELSE last
            /\ pc' = IF o = "ok" THEN "done" ELSE "failed"
    /\ UNCHANGED <<input, output, run, roots, crds, groups, gi, prevFiles>>
    /\ UNCHANGED cgVars

\* Generate, line 175: return nil
Return ==
    /\ pc = "emit"
    /\ gi > Len(groups)
    /\ ~roots.genInstall
    /\ pc' = "done"
    /\ UNCHANGED <<input, output, run, roots, crds, groups, gi, files, prevFiles, emitted,
                   last>>
    /\ UNCHANGED cgVars

\* the generator is run a second time on the same roots, into a fresh output root
Rerun ==
    /\ pc = "done"
    /\ run = 1
    /\ run' = 2
    /\ prevFiles' = files
    /\ files' = {}
    /\ emitted' = <<>>
    /\ last' = [kind |-> "none"]
    /\ crds' = <<>>
    /\ groups' = <<>>
    /\ gi' = 1
    /\ pc' = "start"
    /\ UNCHANGED <<input, output, roots>>
    /\ UNCHANGED cgVars

Next ==
    \/ HeaderError
    \/ ReturnEmpty
    \/ CollectGroups
    \/ Annotate
    \/ EmitGroup
    \/ GenerateScheme
    \/ Return
    \/ Rerun

Spec == Init /\ [][Next]_vars

(***************************************************************************)
(* Properties of the group artifact emitter.                               *)
(***************************************************************************)
\* the file GenerateGroup rendered last, if it is the last artifact
CRDArtifacts == IF last.kind = "crd" THEN {last} ELSE {}
CRDFiles == {f \in files : f.path.file = "zz.generated.crd.go" /\ f.content # Truncated}
Finished == pc = "done" /\ roots.metav1 /\ roots.kinds # {}
KindGroups == {k.group : k \in roots.kinds}

\* C6: two runs of the generator on the same roots leave the same files.
C6_Deterministic ==
    (run = 2 /\ pc = "done") => files = prevFiles

\* the constructor names written out: "NewFooCRD" for the kinds "Foo" and
\* "foo", "NewBarCRD" for the kind "bar"
NewFooCRD == <<78, 101, 119, 70, 111, 111, 67, 82, 68>>
NewBarCRD == <<78, 101, 119, 66, 97, 114, 67, 82, 68>>
ExpectedName(kind) == IF kind = KindBar THEN NewBarCRD ELSE NewFooCRD
Count(seq, x) == Cardinality({i \in 1..Len(seq) : seq[i] = x})

C8_SortedByIdentifier ==
    \A a \in CRDArtifacts :
        \A i, j \in 1..Len(a.visited) :
            i < j =>
                /\ StrLess(a.visited[i].kind, a.visited[j].kind)
                /\ a.content.funcs[i].body = GenerateValue(PointerTo(crds[a.visited[i]]))

\* C9: after a run with GenCRD that returned no error, every group has its
\* own file, holding the constructors of that group's Definitions, and no two
\* groups were written to the same path.
C9_OneFilePerGroup ==
    (Finished /\ roots.genCRD) =>
        /\ \A g \in KindGroups :
            \E f \in CRDFiles :
                {f.content.funcs[i].body : i \in 1..Len(f.content.funcs)}
                    = {GenerateValue(PointerTo(crds[k])) : k \in GroupKindsOf(g)}
        /\ \A i, j \in 1..Len(emitted) :
            (emitted[i].op = "open" /\ emitted[j].op = "open"
                /\ emitted[i].kind = "crd" /\ emitted[j].kind = "crd"
                /\ emitted[i].group # emitted[j].group) => emitted[i].path # emitted[j].path

\* an emitted expression carries the approval annotation: some composite
\* literal in it has an entry keyed by the literal "api-approved.kubernetes.io"
RECURSIVE CarriesApproval(_)
CarriesApproval(s) ==
    CASE s.e = "dict" ->
            \E kv \in RenderedEntries(s.entries) :
                \/ kv.key = [e |-> "lit", kind |-> "string", val |-> KubeAPIApprovedAnnotation]
                \/ CarriesApproval(kv.key)
                \/ CarriesApproval(kv.val)
      [] s.e = "values" -> \E i \in 1..Len(s.items) : CarriesApproval(s.items[i])
      [] s.e \in {"conv", "ptrof", "ptrconv", "addr"} -> CarriesApproval(s.arg)
      [] OTHER -> FALSE

EndsInProtectedSuffix(group) ==
    \E n \in 1..Len(group) :
        SubSeq(group, n, Len(group)) \in {SuffixK8s, SuffixKubernetes}

Emitting == pc \in {"emit", "failed", "done"}
AnnotationDone ==
    \A gk \in DOMAIN crds :
        EndsInProtectedSuffix(gk.group) => Annotations(crds[gk]) = ApprovalAnnotations

\* C11: the Definitions are mutated by the annotation loop only, before the
\* emission loop starts: every step that opens a file finds the Definitions of
\* protected groups annotated already, and within one run no step taken once
\* the emission loop was reached changes a Definition.
C11_AnnotateBeforeEmit ==
    [][/\ (Emitting /\ run' = run) => crds' = crds
       /\ (emitted' # emitted /\ emitted' # <<>>) => (pc = "emit" /\ AnnotationDone)
       /\ (crds' # crds /\ crds # <<>> /\ run' = run) => (pc = "annotate" /\ emitted = <<>>)]_vars

\* a file was rendered for a protected group whose Definition is annotated
C11_Witness ==
    /\ pc = "emit"
    /\ last.kind = "crd"
    /\ EndsInProtectedSuffix(last.group)
    /\ AnnotationDone
    /\ \E gk \in DOMAIN crds : Annotations(crds[gk]) # ApprovalAnnotations

(***************************************************************************)
(* The namespaces named by the comment of KubeAPIApprovedAnnotation.       *)
(***************************************************************************)
\* k8s.io, *.k8s.io, kubernetes.io, *.kubernetes.io
InProtectedNamespace(group) ==
    \/ group \in {Tail(SuffixK8s), Tail(SuffixKubernetes)}
    \/ EndsInProtectedSuffix(group)

\* C12: the constructor rendered for a Definition whose group is k8s.io,
\* kubernetes.io or a sub-domain of either carries the approval annotation.
C12_BareGroupsAnnotated ==
    \A a \in CRDArtifacts :
        \A i \in 1..Len(a.visited) :
            InProtectedNamespace(a.visited[i].group)
                => CarriesApproval(a.content.funcs[i].body)

(***************************************************************************)
(* The registration files.                                                 *)
(***************************************************************************)
Ascending(calls) ==
    \A i, j \in 1..Len(calls) : i < j => StrLess(PathString(calls[i]), PathString(calls[j]))
Called(content) == {content.calls[i] : i \in 1..Len(content.calls)}

\* C13: the registration file of a group calls AddToScheme once for each
\* package of that group and for no other package, the global scheme file once
\* for every package under the roots and not for meta/v1, and in both the calls
\* are in ascending order of the package paths.
C13_Registration ==
    /\ last.kind = "install" =>
        /\ Called(last.content) = {p.path : p \in {q \in roots.pkgs : q.gv.group = last.group}}
        /\ Ascending(last.content.calls)
    /\ last.kind = "scheme" =>
        /\ Called(last.content) = {p.path : p \in roots.pkgs}
        /\ MetaV1Path \notin Called(last.content)
        /\ Ascending(last.content.calls)

\* the scheme file registers two packages of two groups, after a group's
\* registration file that registers one of them
C13_Witness ==
    /\ last.kind = "scheme"
    /\ Len(last.content.calls) = 2
    /\ \E f \in files : /\ f.path.file = "zz.generated.install.go"
                          /\ f.content # Truncated
                          /\ Len(f.content.calls) = 1

(***************************************************************************)
(* Import aliases of the registered packages.                              *)
(***************************************************************************)
IsAlphanumeric(c) == c \in (48..57) \cup (65..90) \cup (97..122)
RECURSIVE StripPunctuation(_)
StripPunctuation(str) ==
    IF str = <<>> THEN <<>>
    ELSE (IF IsAlphanumeric(Head(str)) THEN <<Head(str)>> ELSE <<>>)
            \o StripPunctuation(Tail(str))

\* C14: in a registration file the alias of a package is its last two path
\* segments concatenated, punctuation stripped, and two distinct packages of
\* one file have distinct aliases.
C14_AliasesDistinct ==
    last.kind \in {"install", "scheme"} =>
        /\ \A e \in last.content.aliases :
            e.alias = StripPunctuation(e.path[Len(e.path) - 1] \o e.path[Len(e.path)])
        /\ \A e1, e2 \in last.content.aliases :
            e1.path # e2.path => e1.alias # e2.alias

(***************************************************************************)
(* Roots without eligible Definitions.                                     *)
(***************************************************************************)
\* Generate got to look for Definitions and found none
NoneFound == roots.headerOK /\ (~roots.metav1 \/ roots.kinds = {})

\* C15: when Generate finds no metav1 package among the roots, or no kube
\* kinds, it returns nil and has opened and written no file, the global scheme
\* file included, whatever GenInstall and GenCRD are.
C15_NoDefinitionsNoOutput ==
    NoneFound =>
        /\ pc \in {"start", "done"}
        /\ files = {}
        /\ emitted = <<>>
        /\ last.kind = "none"

\* Generate returned with both outputs enabled and no metav1 among the roots
C15_Witness ==
    /\ pc = "done"
    /\ NoneFound
    /\ roots.genInstall /\ roots.genCRD
    /\ roots.pkgs # {}

(***************************************************************************)
(* Errors of Open and Render during emission.                              *)
(***************************************************************************)
ErrorOps == {"openError", "renderError"}
\* the group whose files the step at hand writes (none for the scheme file)
CurrentGroup == IF gi <= Len(groups) THEN groups[gi] ELSE <<>>
\* the group for which the file at a path was rendered last
LastWriter(path) ==
    LET W == {i \in 1..Len(emitted) : emitted[i].op = "render" /\ emitted[i].path = path}
    IN  emitted[CHOOSE i \in W : \A j \in W : j <= i].group
\* after the first error no file is opened: the log ends with the failed
\* Open, or with the failed Render and the Close of its handle
NothingAfterError ==
    \A i \in 1..Len(emitted) :
        /\ emitted[i].op = "openError" => i = Len(emitted)
        /\ emitted[i].op = "renderError" => i + 1 = Len(emitted)
        /\ emitted[i].op \in ErrorOps => pc = "failed"

\* C16: when an Open or a Render fails during emission, Generate returns at
\* once: nothing is opened afterwards and no further step is taken; and the
\* files rendered before for other groups are in the output directory as they
\* were written.
C16_FailFastNoRollback ==
    /\ []NothingAfterError
    /\ [][/\ pc # "failed"
          /\ (pc = "emit" /\ pc' = "failed") =>
                \A f \in files : LastWriter(f.path) # CurrentGroup => f \in files']_vars

(***************************************************************************)
(* Serialization errors inside the opaque fallback.                        *)
(***************************************************************************)
\* the record the compiler is given, directly or behind a pointer
InputRecord == IF input.t.kind = "ptr" /\ ~input.nil THEN input.elem ELSE input
SerializationFails ==
    /\ InputRecord.t.kind = "struct"
    /\ HasUnexportedField(InputRecord.t)
    /\ HasContract(InputRecord.t)
    /\ Marshal(InputRecord).err

\* C17: when json.Marshal of a Record with private state fails inside the
\* fallback, the compiler does not return an expression: the failure reaches
\* its caller, which then writes no file for the group.
C17_SerializationErrorPropagates ==
    (output # Unset /\ SerializationFails) => output = Panic

(***************************************************************************)
(* Output file handles.                                                    *)
(***************************************************************************)
\* the handles open after the first n operations of the log: opened by a
\* successful Open and not closed since
OpenHandles(n) ==
    {i \in 1..n : /\ emitted[i].op = "open"
                  /\ ~\E j \in (i + 1)..n : emitted[j].op = "close" /\ emitted[j].path = emitted[i].path}

\* C18: every handle a successful Open returned is closed before the function
\* that opened it returns, after a Render that failed as after one that
\* succeeded; at no point of the run is more than one handle open, and none is
\* open once a Generate* function, and so Generate, has returned.
C18_HandlesClosed ==
    /\ \A n \in 1..Len(emitted) : Cardinality(OpenHandles(n)) <= 1
    /\ OpenHandles(Len(emitted)) = {}
    /\ \A i \in 1..Len(emitted) :
        emitted[i].op = "open" =>
            /\ i + 2 <= Len(emitted)
            /\ emitted[i + 1].op \in {"render", "renderError"}
            /\ emitted[i + 1].path = emitted[i].path
            /\ emitted[i + 2].op = "close"
            /\ emitted[i + 2].path = emitted[i].path

\* Generate returned an error after a Render failed on the second file it
\* opened
C18_Witness ==
    /\ pc = "failed"
    /\ Len(emitted) = 6
    /\ emitted[5].op = "renderError"
    /\ emitted[6].op = "close"

(***************************************************************************)
(* Generator selection: EnabledGenerators, as the code-gen subcommand      *)
(* calls it.                                                               *)
(***************************************************************************)
MaxOpts == 3       \* most entries of the --generators list

\* the generator names, and "foo", which names no generator
GenDeepcopy == <<100, 101, 101, 112, 99, 111, 112, 121>>
GenDefaulter == <<100, 101, 102, 97, 117, 108, 116, 101, 114>>
GenConversion == <<99, 111, 110, 118, 101, 114, 115, 105, 111, 110>>
GenRegister == <<114, 101, 103, 105, 115, 116, 101, 114>>
GenInstall == <<105, 110, 115, 116, 97, 108, 108>>
GenCrd == <<99, 114, 100>>
GenOpenapi == <<111, 112, 101, 110, 97, 112, 105>>
GenProtobuf == <<112, 114, 111, 116, 111, 98, 117, 102>>
GenClient == <<99, 108, 105, 101, 110, 116>>
GenLister == <<108, 105, 115, 116, 101, 114>>
GenInformer == <<105, 110, 102, 111, 114, 109, 101, 114>>
GenFoo == <<102, 111, 111>>

\* NewCodeGenSubcommand: the defaults handed to EnabledGenerators
DefaultEnabled == <<GenDeepcopy, GenDefaulter, GenConversion, GenRegister, GenInstall>>
DefaultDisabled == <<GenOpenapi, GenClient, GenLister, GenInformer, GenCrd, GenProtobuf>>
\* as SortedValidGenerators, but crd comes before install
SortedValidGeneratorsCrdFirst ==
    <<GenDeepcopy, GenDefaulter, GenConversion, GenRegister, GenCrd, GenInstall,
      GenOpenapi, GenProtobuf, GenClient, GenLister, GenInformer>>
\* the order the generators run in
SortedValidGenerators ==
    <<GenDeepcopy, GenDefaulter, GenConversion, GenRegister, GenInstall, GenCrd,
      GenOpenapi, GenProtobuf, GenClient, GenLister, GenInformer>>

Range(seq) == {seq[i] : i \in 1..Len(seq)}
\* opt[1:]
Rest(opt) == SubSeq(opt, 2, Len(opt))
Minus == 45
Plus == 43

\* the loop over generatorsOptions: empty entries are skipped, "-name" goes
\* to disabled, "+name" to enabled, any other entry to target
ParseOptions(opts) ==
    LET kept == {o \in Range(opts) : Len(o) # 0}
    IN  [disabled |-> {Rest(o) : o \in {p \in kept : p[1] = Minus}},
         enabled |-> {Rest(o) : o \in {p \in kept : p[1] = Plus}},
         target |-> {o \in kept : o[1] # Minus /\ o[1] # Plus}]

\* all - disable + enabled
EffectiveMinusWins(all, disabled, enabled) == (all \cup enabled) \ disabled
Effective(all, disabled, enabled) == (all \ disabled) \cup enabled

\* the members of sortedValidGenerators the target holds, in that order
RECURSIVE SortValid(_, _)
SortValid(valid, target) ==
    IF valid = <<>> THEN <<>>
    ELSE (IF Head(valid) \in target THEN <<Head(valid)>> ELSE <<>>)
            \o SortValid(Tail(valid), target)

\* as EnabledGenerators, but the defaults are applied next to bare names too
EnabledGeneratorsKeepDefaults(defaultEnabledGenerators, defaultDisabledGenerators, generatorsOptions) ==
    LET defaultsOff == Range(defaultDisabledGenerators)
        all == IF defaultEnabledGenerators = <<>> THEN {}
               ELSE Range(defaultEnabledGenerators) \cup defaultsOff
        parsed == ParseOptions(generatorsOptions)
        disabled == defaultsOff \cup parsed.disabled
        target == parsed.target \cup Effective(all, disabled, parsed.enabled)
    IN  SortValid(SortedValidGenerators, target)

EnabledGenerators(defaultEnabledGenerators, defaultDisabledGenerators, generatorsOptions) ==
    LET defaultsOff == Range(defaultDisabledGenerators)
        \* all.Add(g); all = all.Unite(disabled), once per default-enabled name
        all == IF defaultEnabledGenerators = <<>> THEN {}
               ELSE Range(defaultEnabledGenerators) \cup defaultsOff
        parsed == ParseOptions(generatorsOptions)
        disabled == defaultsOff \cup parsed.disabled
        target == IF parsed.target = {}
                  THEN Effective(all, disabled, parsed.enabled)
                  ELSE parsed.target
    IN  SortValid(SortedValidGenerators, target)

\* the entries a --generators list is made of: the empty entry, and a
\* default-enabled name, a default-disabled name and an unknown name, each
\* bare, with "+" and with "-"
OptionNames == {GenDeepcopy, GenCrd, GenFoo}
Options == {<<>>} \cup OptionNames \cup {<<Plus>> \o n : n \in OptionNames}
                \cup {<<Minus>> \o n : n \in OptionNames}
OptionLists == UNION {[1..n -> Options] : n \in 0..MaxOpts}

InitSelect ==
    /\ input \in OptionLists
    /\ output = Unset
    /\ pc = "select" /\ run = 1 /\ roots = NoRoots /\ crds = <<>> /\ groups = <<>>
    /\ gi = 1 /\ files = {} /\ prevFiles = {} /\ emitted = <<>> /\ last = [kind |-> "none"]
    /\ CodeGeneratorIdle

\* codegenSubcommand.Complete and CodeGenerator.doGenerate: the generators to run
Select ==
    /\ pc = "select"
    /\ output' = [e |-> "selected",
                  names |-> EnabledGenerators(DefaultEnabled, DefaultDisabled, input)]
    /\ pc' = "selected"
    /\ UNCHANGED <<input, run, roots, crds, groups, gi, files, prevFiles, emitted, last>>
    /\ UNCHANGED cgVars

NextSelect == Select

SpecSelect == InitSelect /\ [][NextSelect]_vars

\* the names given bare, with "+" and with "-", and the generators selected
BareNames == {o \in Range(input) : Len(o) # 0 /\ o[1] # Minus /\ o[1] # Plus}
PlusNames == {Rest(o) : o \in {p \in Range(input) : Len(p) # 0 /\ p[1] = Plus}}
MinusNames == {Rest(o) : o \in {p \in Range(input) : Len(p) # 0 /\ p[1] = Minus}}
Selected == Range(output.names)
Valid == Range(SortedValidGenerators)

\* C19 as stated: without a bare name the result is
\* (default_enabled + plus) - (default_disabled + minus); with one it is the
\* set of bare names.
C19_Selection_Original ==
    pc = "selected" =>
        Selected = IF BareNames = {}
                   THEN (Range(DefaultEnabled) \cup PlusNames)
                            \ (Range(DefaultDisabled) \cup MinusNames)
                   ELSE BareNames

\* C19: without a bare name the result holds the valid generators among
\* (default_enabled - (default_disabled + minus)) + plus; with one, the valid
\* generators among the bare names, the defaults and every +name and -name
\* being ignored; each generator is listed once.
C19_Selection ==
    pc = "selected" =>
        /\ Selected = Valid \cap
                (IF BareNames = {}
                 THEN (Range(DefaultEnabled) \ (Range(DefaultDisabled) \cup MinusNames))
                            \cup PlusNames
                 ELSE BareNames)
        /\ Cardinality(Selected) = Len(output.names)

\* +crd with no bare name: a default-disabled generator is selected
C19_Witness ==
    /\ pc = "selected"
    /\ BareNames = {}
    /\ GenCrd \in PlusNames
    /\ GenCrd \in Selected
    /\ GenDeepcopy \in Selected

PointerRendering(p, omitType) ==
    IF IsLiteralType(p.t.elem) THEN generatePtrLiteralValue(p.elem)
    ELSE IF p.t.elem.kind = "struct" THEN generateStructValue(p.elem, TRUE, omitType)
    ELSE [e |-> "addr", arg |-> generateValue(p.elem, FALSE)]
IsPointer(v) == v.t.kind = "ptr" /\ ~v.nil
HoldsPointers(v) ==
    /\ v.t.kind \in {"slice", "array"}
    /\ v.t.elem.kind = "ptr"
    /\ \A i \in 1..Len(v.elems) : ~v.elems[i].nil

\* C24: a non-nil pointer to a scalar is rendered by generatePtrLiteralValue,
\* one to a Record as the Record with ptrResult=true, one to anything else as
\* the address-of operator before the pointee rendered with its type; the
\* last also where the pointer is a sequence element (omitType=true).
C24_PointerDispatch ==
    (output # Unset /\ output # Panic) =>
        /\ IsPointer(input) => output = PointerRendering(input, FALSE)
        /\ HoldsPointers(input) =>
            \A i \in 1..Len(input.elems) :
                /\ output.items[i] = PointerRendering(input.elems[i], TRUE)
                /\ ~(IsLiteralType(input.t.elem.elem) \/ input.t.elem.elem.kind = "struct")
                    => /\ output.items[i].e = "addr"
                       /\ output.items[i].arg.type # EmptyStatement

\* an array holding a pointer to a non-empty sequence was rendered
C24_Witness ==
    /\ output # Unset /\ output # Panic
    /\ HoldsPointers(input)
    /\ input.t.elem.elem.kind = "slice"
    /\ Len(input.elems) = 1
    /\ Len(input.elems[1].elem.elems) > 0
    /\ output.items[1].e = "addr"

(***************************************************************************)
(* Unsupported kinds.                                                      *)
(***************************************************************************)
\* C25: a Record field whose kind is channel or function has no entry in the
\* rendered composite literal, whether it holds nil or not, and for a value
\* of such a kind itself the compiler returns no expression.
C25_UnsupportedNeverEmitted ==
    /\ \A p \in SubRecords :
        p.s.e = "dict" =>
            \A i \in 1..Len(p.v.fields) :
                Unsupported(p.v.t.fields[i].type)
                    => p.v.t.fields[i].name \notin EntryNames(p.s)
    /\ (output # Unset /\ Unsupported(input.t)) => output = Null

\* a Record with a non-nil function field and a non-zero field next to it
\* was rendered: the literal has the one entry
C25_Witness ==
    /\ input.t = THook
    /\ ~IsZero(input.fields[1]) /\ ~IsZero(input.fields[2])
    /\ output # Unset
    /\ \E p \in SubRecords : p.s.e = "dict" /\ Cardinality(EntryNames(p.s)) = 1

(***************************************************************************)
(* The calls one GenerateValue makes.  Each call is recorded with its      *)
(* function, its omitType and ptrResult arguments, the position of the     *)
(* value it is given and whether that value is a nil pointer; a call of    *)
(* generateStructValue also with the type prefix of the literal it         *)
(* returns (Unset when it returns no composite literal).                   *)
(* Positions: "top", "field", "key", "element", "mapvalue", "pointee" (the *)
(* pointee of a pointer, line 86) and "discardedPointee" (line 83).  A     *)
(* Record pointee handed to generateStructValue by generatePtrValue has    *)
(* the position of its pointer.                                            *)
(***************************************************************************)
Call(fn, v, omitType, ptrResult, pos, prefix) ==
    [fn |-> fn, omitType |-> omitType, ptrResult |-> ptrResult, pos |-> pos,
     invalid |-> v = InvalidValue,
     nilPointer |-> IF v = InvalidValue THEN FALSE ELSE v.t.kind = "ptr" /\ v.nil,
     prefix |-> prefix]

RECURSIVE CallsOfValue(_, _, _), CallsOfPtr(_, _, _), CallsOfStruct(_, _, _, _)

\* as CallsOfStruct, but the fields are rendered with omitType=true
CallsOfStructOmittingFieldTypes(v, ptrResult, omitType, pos) ==
    LET s == generateStructValue(v, ptrResult, omitType)
        fieldwise == s # Panic /\ s # Null /\ s.e = "dict"
        self == Call("generateStructValue", v, omitType, ptrResult, pos,
                     IF fieldwise THEN s.type ELSE Unset)
    IN  IF ~fieldwise THEN {self}
        ELSE {self} \cup UNION {CallsOfValue(v.fields[i], TRUE, "field") :
                                  i \in {x \in 1..Len(v.fields) : IncludedField(v, x)}}

\* generateStructValue, lines 184-231
CallsOfStruct(v, ptrResult, omitType, pos) ==
    LET s == generateStructValue(v, ptrResult, omitType)
        fieldwise == s # Panic /\ s # Null /\ s.e = "dict"
        self == Call("generateStructValue", v, omitType, ptrResult, pos,
                     IF fieldwise THEN s.type ELSE Unset)
    IN  IF ~fieldwise THEN {self}
        ELSE {self} \cup UNION {CallsOfValue(v.fields[i], FALSE, "field") :
                                  i \in {x \in 1..Len(v.fields) : IncludedField(v, x)}}

\* generatePtrValue, lines 70-87
CallsOfPtr(v, omitType, pos) ==
    LET self == Call("generatePtrValue", v, omitType, FALSE, pos, Unset)
    IN  IF IsLiteralType(v.t.elem)
        THEN {self, Call("generatePtrLiteralValue", Elem(v), FALSE, FALSE, pos, Unset)}
        ELSE IF v.t.elem.kind = "struct"
        THEN {self} \cup CallsOfStruct(Elem(v), TRUE, omitType, pos)
        ELSE {self}
                \cup (IF omitType THEN CallsOfValue(Elem(v), TRUE, "discardedPointee")
                      ELSE {})
                \cup CallsOfValue(Elem(v), FALSE, "pointee")

\* generateValue, lines 29-68
CallsOfValue(v, omitType, pos) ==
    LET self == Call("generateValue", v, omitType, FALSE, pos, Unset)
    IN  IF v = InvalidValue \/ IsLiteralType(v.t) THEN {self}
        ELSE CASE v.t.kind = "ptr" -> {self} \cup CallsOfPtr(v, omitType, pos)
               [] v.t.kind \in {"slice", "array"} ->
                    {self} \cup UNION {CallsOfValue(v.elems[i], TRUE, "element") :
                                         i \in 1..Len(v.elems)}
               [] v.t.kind = "map" ->
                    {self} \cup UNION {CallsOfValue(kv.key, FALSE, "key")
                                           \cup CallsOfValue(kv.val, TRUE, "mapvalue") :
                                         kv \in v.entries}
               [] v.t.kind = "struct" -> {self} \cup CallsOfStruct(v, FALSE, omitType, pos)
               [] OTHER -> {self}

\* GenerateValue, lines 25-27
Calls == CallsOfValue(input, FALSE, "top")

\* C26 as stated: omitType=true only for a value in a sequence-element or
\* mapping-value position, or the Record pointee of a pointer in one.
C26_OmitTypePositions_Original ==
    (output # Unset /\ output # Panic) =>
        \A c \in Calls : c.omitType => c.pos \in {"element", "mapvalue"}

\* C26: omitType=true only for a value in a sequence-element or
\* mapping-value position, for the Record pointee of a pointer in one, and
\* for the other pointee of a pointer in one in the call whose result
\* generatePtrValue discards; the top-level value, Record field values,
\* mapping keys and the pointee that is rendered into the output get
\* omitType=false.
C26_OmitTypePositions ==
    (output # Unset /\ output # Panic) =>
        /\ \A c \in Calls :
            c.omitType => c.pos \in {"element", "mapvalue", "discardedPointee"}
        /\ \A c \in Calls :
            c.pos = "discardedPointee" =>
                \E d \in Calls : d.fn = "generatePtrValue" /\ d.omitType
                                    /\ d.pos \in {"element", "mapvalue"}

\* an array holding a pointer to a sequence was rendered: the pointee was
\* rendered once with omitType=true, discarded, and once with omitType=false
C26_Witness ==
    /\ output # Unset /\ output # Panic
    /\ \E c \in Calls : c.pos = "discardedPointee" /\ c.omitType
    /\ \E c \in Calls : c.pos = "pointee" /\ ~c.omitType
    /\ \E c \in Calls : c.pos = "element" /\ c.omitType


\* C27 as stated: a Record rendered field by field with ptrResult=true is
\* prefixed with the address-of operator, whatever omitType is.
C27_AddressPrefix_Original ==
    output # Unset =>
        \A c \in Calls :
            (c.fn = "generateStructValue" /\ c.ptrResult /\ c.prefix # Unset)
                => c.prefix.op = "&"

\* C27: a Record rendered field by field with ptrResult=true is prefixed
\* with the address-of operator and its type when omitType=false; when
\* omitType=true the literal has no prefix at all, neither the type nor the
\* address-of operator.
C27_AddressPrefix ==
    output # Unset =>
        \A c \in Calls :
            (c.fn = "generateStructValue" /\ c.ptrResult /\ c.prefix # Unset)
                => IF c.omitType THEN c.prefix = EmptyStatement
                   ELSE c.prefix.op = "&" /\ c.prefix.arg.op \in {"qual", "struct"}

\* a pointer to a Record was rendered field by field once at top level and
\* once as a sequence element or mapping value
C27_Witness ==
    /\ output # Unset /\ output # Panic
    /\ \E c \in Calls : c.fn = "generateStructValue" /\ c.ptrResult
                           /\ c.prefix # Unset /\ c.omitType
                           /\ c.pos \in {"element", "mapvalue"}

\* a pointer to a Record at top level was rendered field by field
C27_TopLevelWitness ==
    /\ output # Unset /\ output # Panic
    /\ \E c \in Calls : c.fn = "generateStructValue" /\ c.ptrResult
                           /\ c.prefix # Unset /\ ~c.omitType /\ c.pos = "top"

\* C28: starting from a non-nil pointer to a Record, neither
\* generatePtrValue nor generatePtrLiteralValue is reached with a nil
\* pointer, nil pointers held as sequence elements or mapping values
\* included, and the render does not fail.
C28_NoNilPointerRendered ==
    (IsRecordPtr(input) /\ output # Unset) =>
        /\ \A c \in Calls : c.fn = "generatePtrValue" => ~c.nilPointer
        /\ \A c \in Calls : c.fn = "generatePtrLiteralValue" => ~c.invalid
        /\ output # Panic

\* the part of C28 that holds: a nil pointer that is a Record field is
\* elided and never handed to a pointer renderer
C28_NilFieldsElided ==
    (IsRecordPtr(input) /\ output # Unset) =>
        \A c \in Calls : (c.fn = "generatePtrValue" /\ c.nilPointer)
                            => c.pos \in {"element", "mapvalue"}


(***************************************************************************)
(* CodeGenerator.Run: clean the output base, detect the code-generator     *)
(* version, run the enabled generators one after the other, copy what they *)
(* generated into the workspace and remove the output base.                *)
(***************************************************************************)
MaxRunOpts == 2

\* the generators whose output directory is the workspace itself
\* (output:crd:dir = workspace/apisPath); the others get --output-base
DirectGenerators == {GenCrd, GenInstall}

\* what Run returns: nil, the error of a generator, or the error of a step
\* of Run itself
NilError == [kind |-> "nil", g |-> <<>>]
GeneratorError(g) == [kind |-> "generator", g |-> g]
ErrorOf(step) == [kind |-> step, g |-> <<>>]

\* what a generator, or an earlier run, left in a directory
Entry(g, whole, via) == [by |-> g, whole |-> whole, via |-> via]
Stale == Entry(<<>>, TRUE, "earlier run")

\* NewCodeGenerator keeps the valid names of a default list (as a set)
ValidOnly(names) == SelectSeq(names, LAMBDA g : g \in Range(SortedValidGenerators))

NewCodeGenerator(codeGeneratorVersion, enabledGenerators, disabledGenerators, generators) ==
    [codeGeneratorVersion |-> codeGeneratorVersion,
     enabledGenerators |-> ValidOnly(enabledGenerators),
     disabledGenerators |-> ValidOnly(disabledGenerators),
     generators |-> generators]

\* the default lists handed to NewCodeGenerator: those of the code-gen
\* subcommand, none at all, and lists other callers may pass
DefaultLists ==
    {<<DefaultEnabled, DefaultDisabled>>, <<<<>>, <<>>>>,
     <<<<GenCrd, GenFoo>>, <<GenDeepcopy, GenFoo>>>>}
Versions == {<<>>, <<118>>}
RunOptionLists == UNION {[1..n -> Options] : n \in 0..MaxRunOpts}

InitRun ==
    /\ input = Zero(TInt) /\ output = Unset
    /\ pc = "idle" /\ run = 1 /\ roots = NoRoots /\ crds = <<>> /\ groups = <<>>
    /\ gi = 1 /\ files = {} /\ prevFiles = {} /\ emitted = <<>> /\ last = [kind |-> "none"]
    /\ \E d \in DefaultLists, v \in Versions, g \in RunOptionLists :
          cg = NewCodeGenerator(v, d[1], d[2], g)
    /\ cgpc = "Run" /\ sorted = <<>> /\ ran = <<>>
    /\ outputBase \in {Absent, Dir({Stale})}
    /\ workspace = {} /\ result = Unset

genVars == <<input, output, pc, run, roots, crds, groups, gi, files, prevFiles, emitted, last>>

\* Run, line 942: os.RemoveAll(c.outputBase)
CleanOutputBase ==
    /\ cgpc = "Run"
    /\ outputBase' = Absent
    /\ cgpc' = "detect"
    /\ UNCHANGED <<cg, sorted, ran, workspace, result>>
    /\ UNCHANGED genVars

\* Run, lines 944-951: detect the code-generator version unless it was given
DetectVersion ==
    /\ cgpc = "detect"
    /\ IF cg.codeGeneratorVersion # <<>>
       THEN cgpc' = "doGenerate" /\ UNCHANGED <<cg, result>>
       ELSE \/ /\ cg' = [cg EXCEPT !.codeGeneratorVersion = <<118>>]
               /\ cgpc' = "doGenerate" /\ UNCHANGED result
            \/ /\ result' = ErrorOf("go list")
               /\ cgpc' = "returned" /\ UNCHANGED cg
    /\ UNCHANGED <<sorted, ran, outputBase, workspace>>
    /\ UNCHANGED genVars

\* doGenerate, line 990
SortGenerators ==
    /\ cgpc = "doGenerate"
    /\ sorted' = EnabledGenerators(cg.enabledGenerators, cg.disabledGenerators, cg.generators)
    /\ cgpc' = "loop"
    /\ UNCHANGED <<cg, ran, outputBase, workspace, result>>
    /\ UNCHANGED genVars

\* what a directory holds after generator g wrote into it
Written(entries, g, whole) == entries \cup {Entry(g, whole, "generator")}

\* as DoGen, but a failed generator does not end the loop
DoGenIgnoringError ==
    /\ cgpc = "loop" /\ Len(ran) < Len(sorted)
    /\ LET g == sorted[Len(ran) + 1]
       IN  \E ok \in BOOLEAN, wrote \in BOOLEAN :
              /\ ran' = Append(ran, [g |-> g, ok |-> ok, wrote |-> wrote])
              /\ IF wrote /\ g \in DirectGenerators
                 THEN workspace' = Written(workspace, g, ok) /\ UNCHANGED outputBase
                 ELSE IF wrote
                 THEN outputBase' = Dir(Written(outputBase.entries, g, ok)) /\ UNCHANGED workspace
                 ELSE UNCHANGED <<outputBase, workspace>>
              /\ UNCHANGED <<cgpc, result>>
    /\ UNCHANGED <<cg, sorted>>
    /\ UNCHANGED genVars

\* doGenerate, lines 999-1003: one turn of the loop, c.doGen(g).  The
\* generator succeeds or fails, and in either case it may have written
\* files: crd and install into the workspace, the others under the output base.
DoGen ==
    /\ cgpc = "loop" /\ Len(ran) < Len(sorted)
    /\ LET g == sorted[Len(ran) + 1]
       IN  \E ok \in BOOLEAN, wrote \in BOOLEAN :
              /\ ran' = Append(ran, [g |-> g, ok |-> ok, wrote |-> wrote])
              /\ IF wrote /\ g \in DirectGenerators
                 THEN workspace' = Written(workspace, g, ok) /\ UNCHANGED outputBase
                 ELSE IF wrote
                 THEN outputBase' = Dir(Written(outputBase.entries, g, ok)) /\ UNCHANGED workspace
                 ELSE UNCHANGED <<outputBase, workspace>>
              /\ IF ok THEN UNCHANGED <<cgpc, result>>
                 ELSE result' = GeneratorError(g) /\ cgpc' = "returned"
    /\ UNCHANGED <<cg, sorted>>
    /\ UNCHANGED genVars

\* doGenerate, line 1004: every generator succeeded
LoopDone ==
    /\ cgpc = "loop" /\ Len(ran) = Len(sorted)
    /\ cgpc' = "postRun"
    /\ UNCHANGED <<cg, sorted, ran, outputBase, workspace, result>>
    /\ UNCHANGED genVars

\* postRun, lines 965-987
PostRun ==
    /\ cgpc = "postRun"
    /\ \/ /\ result' = ErrorOf("stat")
          /\ UNCHANGED <<outputBase, workspace>>
       \/ /\ outputBase = Absent
          /\ result' = NilError
          /\ UNCHANGED <<outputBase, workspace>>
       \/ /\ outputBase # Absent
          /\ workspace' = workspace \cup {Entry(e.by, e.whole, "copy") : e \in outputBase.entries}
          /\ outputBase' = Absent
          /\ result' = NilError
       \/ /\ outputBase # Absent
          /\ \E part \in {{}, outputBase.entries} :
                workspace' = workspace \cup {Entry(e.by, e.whole, "copy") : e \in part}
          /\ result' = ErrorOf("copy")
          /\ UNCHANGED outputBase
    /\ cgpc' = "returned"
    /\ UNCHANGED <<cg, sorted, ran>>
    /\ UNCHANGED genVars

NextRun ==
    \/ CleanOutputBase
    \/ DetectVersion
    \/ SortGenerators
    \/ DoGen
    \/ LoopDone
    \/ PostRun

SpecRun == InitRun /\ [][NextRun]_vars


Failed == ran # <<>> /\ ~ran[Len(ran)].ok
\* what the generators that ran wrote under the output base
GeneratedUnderOutputBase ==
    {Entry(ran[i].g, ran[i].ok, "generator") :
        i \in {x \in 1..Len(ran) : ran[x].wrote /\ ran[x].g \notin DirectGenerators}}

C29_CopiedWitness ==
    /\ cgpc = "returned" /\ result = NilError /\ Len(ran) >= 2
    /\ \E e \in workspace : e.via = "copy"

\* what C29 does not say: crd and install write into the workspace
\* directly, so after a failure the workspace may hold generated files
C29_WorkspaceUntouchedOnFailure == Failed => workspace = {}

\* the canonical generator order
CanonicalOrder ==
    <<GenDeepcopy, GenDefaulter, GenConversion, GenRegister, GenInstall, GenCrd,
      GenOpenapi, GenProtobuf, GenClient, GenLister, GenInformer>>
CanonicalPosition(g) == CHOOSE i \in 1..Len(CanonicalOrder) : CanonicalOrder[i] = g
\* s is a duplicate-free subsequence of the canonical order
IsCanonical(s) ==
    /\ \A i \in 1..Len(s) : s[i] \in Range(CanonicalOrder)
    /\ \A i, j \in 1..Len(s) :
          i < j => CanonicalPosition(s[i]) < CanonicalPosition(s[j])

\* C30: whatever the default lists and the options, EnabledGenerators
\* returns a duplicate-free subsequence of the canonical order, so only
\* valid names, an unknown name being left out however it was given; and
\* doGenerate runs the generators of that list in its order, each at most
\* once.
C30_CanonicalOrder ==
    /\ \A d \in DefaultLists :
          IsCanonical(EnabledGenerators(d[1], d[2], cg.generators))
    /\ cgpc \in {"loop", "postRun", "returned"} =>
          /\ IsCanonical(sorted)
          /\ GenFoo \notin Range(sorted)
          /\ Len(ran) <= Len(sorted)
          /\ \A i \in 1..Len(ran) : ran[i].g = sorted[i]
    /\ (cgpc = "postRun" \/ result = NilError) => Len(ran) = Len(sorted)

\* an unknown name was given next to +crd; every generator of the list,
\* crd after install, has run
C30_Witness ==
    /\ cgpc = "postRun"
    /\ GenFoo \in {Rest(o) : o \in {p \in Range(cg.generators) : Len(p) # 0}}
    /\ <<Plus>> \o GenCrd \in Range(cg.generators)
    /\ Len(ran) >= 2
    /\ \E i \in 1..Len(ran) - 1 : ran[i].g = GenInstall /\ ran[i + 1].g = GenCrd


(***************************************************************************)
(* The input packages: findGroupVersion and goFileExists walk the apis     *)
(* directory, inputAPIPackages filters what they found by --group-versions.*)
(* A file-system node is a record: its name, whether it is a directory,    *)
(* and the set of its entries.  A path is the sequence of names from the   *)
(* root of the walk.                                                       *)
(***************************************************************************)
MaxDirEntries == 2
MaxGVOpts == 1

\* "apps"
NameApps == <<97, 112, 112, 115>>
\* "batch"
NameBatch == <<98, 97, 116, 99, 104>>
\* "v1"
NameV1 == <<118, 49>>
\* "v2"
NameV2 == <<118, 50>>
\* "v1beta1"
NameV1Beta1 == <<118, 49, 98, 101, 116, 97, 49>>
\* "v01"
NameV01 == <<118, 48, 49>>
\* "v1beta"
NameV1Beta == <<118, 49, 98, 101, 116, 97>>
\* "install"
NameInstall == <<105, 110, 115, 116, 97, 108, 108>>
\* "types.go"
NameTypesGo == <<116, 121, 112, 101, 115, 46, 103, 111>>
\* "README"
NameReadme == <<82, 69, 65, 68, 77, 69>>
\* "alpha"
WordAlpha == <<97, 108, 112, 104, 97>>
\* "beta"
WordBeta == <<98, 101, 116, 97>>
\* ".go"
SuffixGo == <<46, 103, 111>>
\* "m"
ApisModule == <<109>>
\* "apis"
ApisPath == <<97, 112, 105, 115>>
Slash == 47
Colon == 58
LetterV == 118
Digit0 == 48
Digit9 == 57

File(name) == [name |-> name, dir |-> FALSE, entries |-> {}]
Directory(name, entries) == [name |-> name, dir |-> TRUE, entries |-> entries]

\* the decimal numbers of versionRegexp: 0|[1-9][0-9]*
IsNumber(s) ==
    /\ Len(s) >= 1
    /\ \A i \in 1..Len(s) : s[i] >= Digit0 /\ s[i] <= Digit9
    /\ s[1] = Digit0 => Len(s) = 1

\* as VersionMatches, but the pattern is not anchored at the end
VersionMatchesPrefix(s) ==
    /\ Len(s) >= 2 /\ s[1] = LetterV
    /\ \E k \in 2..Len(s) : IsNumber(SubSeq(s, 2, k))

\* versionRegexp.MatchString: ^v(0|[1-9][0-9]*)((alpha|beta)(0|[1-9][0-9]*))?$
VersionMatches(s) ==
    /\ Len(s) >= 2 /\ s[1] = LetterV
    /\ \/ IsNumber(SubSeq(s, 2, Len(s)))
       \/ \E k \in 2..Len(s), w \in {WordAlpha, WordBeta} :
             /\ IsNumber(SubSeq(s, 2, k))
             /\ k + Len(w) < Len(s)
             /\ SubSeq(s, k + 1, k + Len(w)) = w
             /\ IsNumber(SubSeq(s, k + Len(w) + 1, Len(s)))

\* path.Join of the names of a path
RECURSIVE JoinPath(_)
JoinPath(p) ==
    IF p = <<>> THEN <<>>
    ELSE IF Len(p) = 1 THEN p[1]
    ELSE p[1] \o <<Slash>> \o JoinPath(Tail(p))

\* fs.ReadDir: the entries of a directory sorted by name
RECURSIVE ReadDir(_)
ReadDir(entries) ==
    IF entries = {} THEN <<>>
    ELSE LET first == CHOOSE e \in entries :
                         \A o \in entries : o = e \/ StrLess(e.name, o.name)
         IN  <<first>> \o ReadDir(entries \ {first})

\* the node a path leads to from a directory
RECURSIVE Lookup(_, _)
Lookup(node, p) ==
    IF p = <<>> THEN node
    ELSE Lookup(CHOOSE e \in node.entries : e.name = p[1], Tail(p))

\* the paths of all nodes below a directory, the directory itself included
RECURSIVE PathsOf(_)
PathsOf(node) ==
    {<<>>} \cup UNION {{<<e.name>> \o q : q \in PathsOf(e)} : e \in node.entries}

\* the callback of goFileExists, lines 413-428, as a function of the path
\* relative to root, the entry and the state so far
goFileExistsFnDescending(p, d, acc) ==
    IF p = <<>> THEN [err |-> "nil", acc |-> acc]
    ELSE IF d.dir THEN [err |-> "nil", acc |-> acc]
    ELSE IF HasSuffix(d.name, SuffixGo)
    THEN [err |-> "SkipAll", acc |-> [acc EXCEPT !.got = TRUE]]
    ELSE [err |-> "nil", acc |-> acc]

goFileExistsFn(p, d, acc) ==
    IF p = <<>> THEN [err |-> "nil", acc |-> acc]
    ELSE IF d.dir THEN [err |-> "SkipDir", acc |-> acc]
    ELSE IF HasSuffix(d.name, SuffixGo)
    THEN [err |-> "SkipAll", acc |-> [acc EXCEPT !.got = TRUE]]
    ELSE [err |-> "nil", acc |-> acc]

\* the callback of findGroupVersion, lines 361-383
findGroupVersionFn(p, d, acc) ==
    IF p = <<>> THEN [err |-> "nil", acc |-> acc]
    ELSE IF ~d.dir THEN [err |-> "nil", acc |-> acc]
    ELSE IF Len(p) # 2 THEN [err |-> "nil", acc |-> acc]
    ELSE [err |-> "SkipDir",
          acc |-> IF VersionMatches(p[Len(p)])
                  THEN [acc EXCEPT !.groupVersions = Append(@, JoinPath(p)),
                                   !.groups = @ \cup {p[1]}]
                  ELSE acc]

\* the callback a walk was started with
WalkDirFn(fn, p, d, acc) ==
    LET seen == [acc EXCEPT !.visited = Append(@, p)]
    IN  IF fn = "goFileExists" THEN goFileExistsFn(p, d, seen)
        ELSE findGroupVersionFn(p, d, seen)

\* io/fs walkDir: call the callback for the entry, then walk the entries of
\* a directory in the order of their names.  SkipDir returned for a
\* directory skips its entries; returned for a file it ends the walk of the
\* directory the file lies in; any other error ends the walk.
RECURSIVE walkDir(_, _, _, _), walkEntries(_, _, _, _)
walkDir(fn, p, d, acc) ==
    LET r == WalkDirFn(fn, p, d, acc)
    IN  IF r.err # "nil" \/ ~d.dir
        THEN [err |-> IF r.err = "SkipDir" /\ d.dir THEN "nil" ELSE r.err, acc |-> r.acc]
        ELSE walkEntries(fn, p, ReadDir(d.entries), r.acc)
walkEntries(fn, p, dirs, acc) ==
    IF dirs = <<>> THEN [err |-> "nil", acc |-> acc]
    ELSE LET r == walkDir(fn, Append(p, Head(dirs).name), Head(dirs), acc)
         IN  IF r.err = "SkipDir" THEN [err |-> "nil", acc |-> r.acc]
             ELSE IF r.err # "nil" THEN r
             ELSE walkEntries(fn, p, Tail(dirs), r.acc)

\* fs.WalkDir
WalkDir(fn, root, acc) ==
    LET r == walkDir(fn, <<>>, root, acc)
    IN  [err |-> IF r.err \in {"SkipDir", "SkipAll"} THEN "nil" ELSE r.err, acc |-> r.acc]

\* goFileExists, lines 411-430
goFileExists(root) == WalkDir("goFileExists", root, [got |-> FALSE, visited |-> <<>>]).acc

\* findGroupVersion, lines 356-409; `order` is the order groups.Range
\* yields the groups in
findGroupVersion(root, order) ==
    LET walked == WalkDir("findGroupVersion", root,
                          [groupVersions |-> <<>>, groups |-> {}, visited |-> <<>>]).acc
    IN  [groupVersions |-> walked.groupVersions,
         internalGroupVersion |->
            SelectSeq(order, LAMBDA g : goFileExists(Lookup(root, <<g>>)).got),
         visited |-> walked.visited]

\* the groups the walk of findGroupVersion collects
GroupsOf(root) ==
    WalkDir("findGroupVersion", root,
            [groupVersions |-> <<>>, groups |-> {}, visited |-> <<>>]).acc.groups

\* path.Join(c.apisModule, c.apisPath, gv)
PackageOf(gv) == ApisModule \o <<Slash>> \o ApisPath \o <<Slash>> \o gv

\* inputAPIPackages, lines 308-354
inputAPIPackages(root, order, groupVersionsOpt) ==
    LET found == findGroupVersion(root, order)
        allGVSet == Range(found.groupVersions)
        allInternalGVSet == Range(found.internalGroupVersion)
    IN  IF Len(groupVersionsOpt) = 0
        THEN [inputPackages |->
                [i \in 1..Len(found.groupVersions) |-> PackageOf(found.groupVersions[i])],
              inputInternalPackages |->
                [i \in 1..Len(found.internalGroupVersion) |->
                    PackageOf(found.internalGroupVersion[i])]]
        ELSE [inputPackages |->
                LET kept == SelectSeq(groupVersionsOpt, LAMBDA gv : gv \in allGVSet)
                IN  [i \in 1..Len(kept) |-> PackageOf(kept[i])],
              inputInternalPackages |->
                LET kept == SelectSeq(groupVersionsOpt, LAMBDA gv : gv \in allInternalGVSet)
                IN  [i \in 1..Len(kept) |-> PackageOf(kept[i])]]

\* the directories the walks are checked on
VersionDirEntries ==
    {{}, {File(NameTypesGo)}, {Directory(NameV1, {File(NameTypesGo)})}}
GroupDirEntries ==
    {Directory(NameV1, c) : c \in VersionDirEntries}
        \cup {Directory(n, {}) : n \in {NameV1Beta1, NameV01, NameV1Beta, NameTypesGo}}
        \cup {Directory(NameInstall, c) : c \in {{}, {File(NameTypesGo)}}}
        \cup {File(n) : n \in {NameTypesGo, NameReadme, NameV2}}
UniqueNames(entries) == \A a, b \in entries : a.name = b.name => a = b
GroupDirs(name) ==
    {Directory(name, s) :
        s \in {x \in SUBSET GroupDirEntries :
                 Cardinality(x) <= MaxDirEntries /\ UniqueNames(x)}}
BatchDirs ==
    {Directory(NameBatch, s) :
        s \in {{}, {Directory(NameV1Beta1, {})},
               {Directory(NameV2, {}), File(NameTypesGo)}}}
ApisDirs ==
    {Directory(ApisPath, a \cup b \cup f) :
        a \in {{}} \cup {{g} : g \in GroupDirs(NameApps)},
        b \in {{}} \cup {{g} : g \in BatchDirs},
        f \in {{}, {File(NameTypesGo)}}}

\* --group-versions: entries in the documented format group:version, in the
\* format group/version, and a bare group
GroupVersionOptions ==
    {NameApps \o <<Colon>> \o NameV1, NameApps \o <<Slash>> \o NameV1,
     NameBatch \o <<Colon>> \o NameV1Beta1, NameBatch \o <<Slash>> \o NameV1Beta1,
     NameApps}
GroupVersionLists == UNION {[1..n -> GroupVersionOptions] : n \in 0..MaxGVOpts}

InitPackages ==
    /\ input \in ApisDirs
    /\ output = Unset
    /\ pc = "options" /\ run = 1 /\ roots = NoRoots /\ crds = <<>> /\ groups = <<>>
    /\ gi = 1 /\ files = {} /\ prevFiles = {} /\ emitted = <<>> /\ last = [kind |-> "none"]
    /\ CodeGeneratorIdle

\* goFileExists(fsys, root) for a directory below the apis path
GoFileExists ==
    /\ pc = "options"
    /\ \E p \in {q \in PathsOf(input) : Lookup(input, q).dir} :
          output' = [e |-> "goFileExists", root |-> p,
                     got |-> goFileExists(Lookup(input, p)).got,
                     visited |-> goFileExists(Lookup(input, p)).visited]
    /\ pc' = "done"
    /\ UNCHANGED <<input, run, roots, crds, groups, gi, files, prevFiles, emitted, last>>
    /\ UNCHANGED cgVars

\* findGroupVersion(fsys, root) for the apis path
FindGroupVersion ==
    /\ pc = "options"
    /\ \E order \in Perms(GroupsOf(input)) :
          output' = [e |-> "findGroupVersion"] @@ findGroupVersion(input, order)
    /\ pc' = "done"
    /\ UNCHANGED <<input, run, roots, crds, groups, gi, files, prevFiles, emitted, last>>
    /\ UNCHANGED cgVars

\* genOptions.Complete: inputAPIPackages with the --group-versions given
InputAPIPackages ==
    /\ pc = "options"
    /\ \E order \in Perms(GroupsOf(input)), opt \in GroupVersionLists :
          output' = [e |-> "inputAPIPackages", groupVersionsOpt |-> opt]
                        @@ inputAPIPackages(input, order, opt)
    /\ pc' = "done"
    /\ UNCHANGED <<input, run, roots, crds, groups, gi, files, prevFiles, emitted, last>>
    /\ UNCHANGED cgVars

NextPackages ==
    \/ GoFileExists
    \/ FindGroupVersion
    \/ InputAPIPackages

SpecPackages == InitPackages /\ [][NextPackages]_vars


\* the catalogue's names that are versions: v<N>, v<N>alpha<N>, v<N>beta<N>
VersionNames == {NameV1, NameV2, NameV1Beta1}
\* the group/version directories of the apis directory
GroupVersionDirs ==
    {p \in PathsOf(input) :
        /\ Len(p) = 2
        /\ Lookup(input, p).dir
        /\ p[2] \in VersionNames}
PathLess(p, q) == StrLess(p[1], q[1]) \/ (p[1] = q[1] /\ StrLess(p[2], q[2]))
HasDirectGoFile(d) == \E f \in d.entries : ~f.dir /\ HasSuffix(f.name, SuffixGo)

\* C21: an entry group:version of --group-versions selects the package
\* <apis-module>/<apis-path>/<group>/<version> whenever that directory
\* exists under the apis path, and an empty --group-versions selects every
\* group/version found.
C21_DocumentedFormat ==
    (output # Unset /\ output.e = "inputAPIPackages") =>
        /\ \A i \in 1..Len(output.groupVersionsOpt), p \in GroupVersionDirs :
              output.groupVersionsOpt[i] = p[1] \o <<Colon>> \o p[2]
                  => PackageOf(JoinPath(p)) \in Range(output.inputPackages)
        /\ output.groupVersionsOpt = <<>> =>
              Range(output.inputPackages) = {PackageOf(JoinPath(p)) : p \in GroupVersionDirs}

\* the part of C21 that holds: an empty --group-versions selects every
\* group/version found, and an entry group/version selects its package
C21_EmptySelectsAll ==
    (output # Unset /\ output.e = "inputAPIPackages") =>
        /\ output.groupVersionsOpt = <<>> =>
              Range(output.inputPackages) = {PackageOf(JoinPath(p)) : p \in GroupVersionDirs}
        /\ \A i \in 1..Len(output.groupVersionsOpt), p \in GroupVersionDirs :
              output.groupVersionsOpt[i] = JoinPath(p)
                  => PackageOf(JoinPath(p)) \in Range(output.inputPackages)

\* C22: findGroupVersion returns the directories two levels below the
\* root whose name is a version, in the order of the walk, and the groups
\* that own such a directory and hold a .go file themselves; it visits
\* nothing deeper than two levels.
C22_FindGroupVersion ==
    (output # Unset /\ output.e = "findGroupVersion") =>
        /\ Range(output.groupVersions) = {JoinPath(p) : p \in GroupVersionDirs}
        /\ Len(output.groupVersions) = Cardinality(GroupVersionDirs)
        /\ \A p, q \in GroupVersionDirs, i, j \in 1..Len(output.groupVersions) :
              (output.groupVersions[i] = JoinPath(p) /\ output.groupVersions[j] = JoinPath(q)
                    /\ i < j) => PathLess(p, q)
        /\ Range(output.internalGroupVersion) =
              {g.name : g \in {x \in input.entries :
                                 /\ x.dir /\ HasDirectGoFile(x)
                                 /\ \E p \in GroupVersionDirs : p[1] = x.name}}
        /\ Len(output.internalGroupVersion) = Cardinality(Range(output.internalGroupVersion))
        /\ \A i \in 1..Len(output.visited) : Len(output.visited[i]) <= 2

\* two groups with a version each were found, one with a .go file of its
\* own, next to a directory that is no version and one three levels deep
C22_Witness ==
    /\ output # Unset /\ output.e = "findGroupVersion"
    /\ Len(output.groupVersions) = 2
    /\ Len(output.internalGroupVersion) = 1
    /\ \E p \in PathsOf(input) : Len(p) = 3
    /\ \E p \in PathsOf(input) : Len(p) = 2 /\ Lookup(input, p).dir /\ p \notin GroupVersionDirs

\* C23: goFileExists is true exactly when a file whose name ends in .go
\* lies directly in root; files in sub-directories do not count, whether
\* the sub-directory is walked before or after the files.
C23_GoFileExists ==
    (output # Unset /\ output.e = "goFileExists") =>
        /\ output.got = HasDirectGoFile(Lookup(input, output.root))
        /\ \A i \in 1..Len(output.visited) : Len(output.visited[i]) <= 1

\* root held a sub-directory with a .go file that sorts before a file of
\* root, and no .go file of its own: the result was false
C23_Witness ==
    /\ output # Unset /\ output.e = "goFileExists"
    /\ ~output.got
    /\ \E d, f \in Lookup(input, output.root).entries :
          /\ d.dir /\ HasDirectGoFile(d)
          /\ ~f.dir /\ StrLess(d.name, f.name)

\* root held a .go file and a sub-directory that sorts before it
C23_TrueWitness ==
    /\ output # Unset /\ output.e = "goFileExists"
    /\ output.got
    /\ \E d, f \in Lookup(input, output.root).entries :
          d.dir /\ ~f.dir /\ HasSuffix(f.name, SuffixGo) /\ StrLess(d.name, f.name)

====
